---- MODULE Spec2Model ----
(***************************************************************************)
(* DoomRunner: the button actions of the list views and the update of a    *)
(* list from a directory (Sources/Utils/WidgetUtils.hpp).                  *)
(*                                                                         *)
(* A list view is modelled by three values:                                *)
(*   model  - the items of the AListModel, in display order                *)
(*   sel    - the set of selected rows; selectionModel()->selectedIndexes()*)
(*            returns them in the order in which the user selected them,   *)
(*            which is an input of every call that reads the whole list    *)
(*   cur    - the row of the current index, -1 when the current index is   *)
(*            invalid                                                      *)
(* Rows are 0-based as in the source; model[i+1] is the item at row i.     *)
(* Every template function of WidgetUtils.hpp is an operator that maps the *)
(* view it is called on to the sequence of views it passes through (one    *)
(* entry per statement that touches the view or the model), its return     *)
(* value and the message boxes it pops up.  The application is single      *)
(* threaded: a slot calls one function, which runs to its end, and returns *)
(* to the event loop.                                                      *)
(***************************************************************************)
EXTENDS Integers, Sequences, FiniteSets, TLC

\* ---------------------------------------------------------------------------
\*  bounds of the model

\* longest list the button actions may build
MaxLen == 3

\* how many " - clone" postfixes the display names of one list may hold
MaxClones == 1

\* longest list whose items are moved up and down
MoveLen == 4

\* the longest list of directories handed to getRunCommand
MaxDirs == 2

\* the longest string handed to splitCommandLineArguments
MaxArgsLen == 5

\* the most checks one PathChecker makes
MaxChecks == 2

\* ---------------------------------------------------------------------------
\*  values

\* files a directory scan can deliver; the path of a file is its identity
Files == {"a", "b"}

\* the result of Item::getID() for "no item" (a default constructed QString)
EmptyID == ""

\* Item( file ): an entity constructed from a scanned file
Item(file) == [id |-> file, name |-> <<file>>]

\* the predicates (isDesiredFile) a caller passes, as the set of files accepted
Predicates == {Files, {"a"}}

\* sequences of distinct elements of S of length at most n
RECURSIVE Arrangements(_, _)
Arrangements(S, n) ==
    IF n = 0 \/ S = {} THEN {<<>>}
    ELSE {<<>>} \cup UNION {{<<x>> \o t : t \in Arrangements(S \ {x}, n - 1)} : x \in S}

\* sequences of elements of S of length at most n
RECURSIVE Tuples(_, _)
Tuples(S, n) ==
    IF n = 0 THEN {<<>>}
    ELSE {<<>>} \cup {<<x>> \o t : x \in S, t \in Tuples(S, n - 1)}

\* what traverseDirectory can deliver: every file at most once, in any order
Scans == Arrangements(Files, MaxLen)

Range(s) == {s[k] : k \in 1..Len(s)}

Last(s) == s[Len(s)]

\* ---------------------------------------------------------------------------
\*  AListModel< Item > : the wrapper around the underlying QList

size(m) == Len(m)

isEmpty(m) == Len(m) = 0

\* model[ i ]
at(m, i) == m[i + 1]

append(m, item) == Append(m, item)

prepend(m, item) == <<item>> \o m

insert(m, i, item) == SubSeq(m, 1, i) \o <<item>> \o SubSeq(m, i + 1, Len(m))

\* QList::removeAt( i ) ignores a row that is out of range
removeAt(m, i) ==
    IF i >= 0 /\ i < Len(m) THEN SubSeq(m, 1, i) \o SubSeq(m, i + 2, Len(m)) ELSE m

\* QList::move( from, to ): takes the item out and puts it back at row to
move(m, from, to) == insert(removeAt(m, from), to, at(m, from))

clear(m) == <<>>

\* findSuch( model, pred ) with pred = "item.getID() == itemID":
\* the first row whose item has this identity, -1 when there is none
findSuch(m, itemID) ==
    IF \E k \in 1..Len(m) : m[k].id = itemID
    THEN (CHOOSE k \in 1..Len(m) :
              /\ m[k].id = itemID
              /\ \A j \in 1..(k - 1) : m[j].id # itemID) - 1
    ELSE -1

\* ---------------------------------------------------------------------------
\*  list view helpers (declared in WidgetUtils.hpp)

\* model->index( i, 0 ) is a valid QModelIndex
validRow(v, i) == i >= 0 /\ i < size(v.model)

getCurrentItemIndex(v) == v.cur

setCurrentItemByIndex(v, i) == [v EXCEPT !.cur = IF validRow(v, i) THEN i ELSE -1]

unsetCurrentItem(v) == [v EXCEPT !.cur = -1]

isSelectedIndex(v, i) == i \in v.sel

isSomethingSelected(v) == v.sel # {}

\* the orders in which selectedIndexes() can return the selected rows
Orders(rows) == {o \in Arrangements(rows, Cardinality(rows)) : Len(o) = Cardinality(rows)}

\* assumes a single-selection mode: the selected row, or -1 when nothing or
\* more than one row is selected
getSelectedItemIndex(v) == IF Cardinality(v.sel) = 1 THEN CHOOSE r \in v.sel : TRUE ELSE -1

\* the message box error getSelectedItemIndex throws when the view is not in
\* single-selection mode and holds more than one selected row
getSelectedItemIndexError(v) ==
    IF Cardinality(v.sel) > 1 THEN <<"Multiple items selected">> ELSE <<>>

selectItemByIndex(v, i) == IF validRow(v, i) THEN [v EXCEPT !.sel = @ \cup {i}] ELSE v

deselectItemByIndex(v, i) == [v EXCEPT !.sel = @ \ {i}]

deselectSelectedItems(v) == [v EXCEPT !.sel = {}]

selectAndSetCurrentByIndex(v, i) == setCurrentItemByIndex(selectItemByIndex(v, i), i)

deselectAllAndUnsetCurrent(v) == unsetCurrentItem(deselectSelectedItems(v))

chooseItemByIndex(v, i) == selectAndSetCurrentByIndex(deselectSelectedItems(v), i)

\* the message box raised by every button action that needs a selection
NoItemSelected == "No item selected"

\* what a call leaves behind: the views it passed through (the first is the
\* view it was called on, the last the view it returns with), the returned
\* value and the titles of the message boxes it raised
Outcome(trace, ret, msgs) == [trace |-> trace, ret |-> ret, msgs |-> msgs]

\* ---------------------------------------------------------------------------
\*  button actions

\* appendItem( view, model, item )
appendItem(v, item) ==
    LET s1 == deselectAllAndUnsetCurrent(v)
        s2 == [s1 EXCEPT !.model = append(@, item)]
        s3 == selectAndSetCurrentByIndex(s2, size(s2.model) - 1)
    IN  Outcome(<<v, s1, s2, s3>>, 0, <<>>)

\* prependItem that leaves the selection alone before it adds the item
prependItem_noDeselect(v, item) ==
    LET s1 == unsetCurrentItem(v)
        s2 == [s1 EXCEPT !.model = prepend(@, item)]
        s3 == selectAndSetCurrentByIndex(s2, 0)
    IN  Outcome(<<v, s1, s2, s3>>, 0, <<>>)

\* prependItem( view, model, item )
prependItem(v, item) ==
    LET s1 == deselectAllAndUnsetCurrent(v)
        s2 == [s1 EXCEPT !.model = prepend(@, item)]
        s3 == selectAndSetCurrentByIndex(s2, 0)
    IN  Outcome(<<v, s1, s2, s3>>, 0, <<>>)

\* insertItem that adds the new item to the selection instead of replacing it
insertItem_keepsSelection(v, item, index) ==
    LET s1 == unsetCurrentItem(v)
        s2 == [s1 EXCEPT !.model = insert(@, index, item),
                         !.sel = {IF r >= index THEN r + 1 ELSE r : r \in @}]
        s3 == selectAndSetCurrentByIndex(s2, index)
    IN  Outcome(<<v, s1, s2, s3>>, 0, <<>>)

\* insertItem( view, model, item, index )
insertItem(v, item, index) ==
    LET s1 == deselectAllAndUnsetCurrent(v)
        s2 == [s1 EXCEPT !.model = insert(@, index, item)]
        s3 == selectAndSetCurrentByIndex(s2, index)
    IN  Outcome(<<v, s1, s2, s3>>, 0, <<>>)

\* deleteSelectedItem that only ever selects the item before the deleted one
deleteSelectedItem_previousOnly(v) ==
    LET selectedIdx == getSelectedItemIndex(v) IN
    IF selectedIdx < 0
    THEN Outcome(<<v>>, -1, getSelectedItemIndexError(v)
                            \o (IF ~isEmpty(v.model) THEN <<NoItemSelected>> ELSE <<>>))
    ELSE LET s1 == deselectAllAndUnsetCurrent(v)
             s2 == [s1 EXCEPT !.model = removeAt(@, selectedIdx)]
             s3 == IF selectedIdx > 0
                   THEN selectAndSetCurrentByIndex(s2, selectedIdx - 1)
                   ELSE s2
         IN  Outcome(<<v, s1, s2, s3>>, selectedIdx, <<>>)

\* deleteSelectedItem that selects nothing when the deleted item was the last
deleteSelectedItem_noPrevious(v) ==
    LET selectedIdx == getSelectedItemIndex(v) IN
    IF selectedIdx < 0
    THEN Outcome(<<v>>, -1, getSelectedItemIndexError(v)
                            \o (IF ~isEmpty(v.model) THEN <<NoItemSelected>> ELSE <<>>))
    ELSE LET s1 == deselectAllAndUnsetCurrent(v)
             s2 == [s1 EXCEPT !.model = removeAt(@, selectedIdx)]
             s3 == IF selectedIdx < size(s2.model)
                   THEN selectAndSetCurrentByIndex(s2, selectedIdx)
                   ELSE s2
         IN  Outcome(<<v, s1, s2, s3>>, selectedIdx, <<>>)

\* deleteSelectedItem( view, model )
deleteSelectedItem(v) ==
    LET selectedIdx == getSelectedItemIndex(v) IN
    IF selectedIdx < 0
    THEN Outcome(<<v>>, -1, getSelectedItemIndexError(v)
                            \o (IF ~isEmpty(v.model) THEN <<NoItemSelected>> ELSE <<>>))
    ELSE LET s1 == deselectAllAndUnsetCurrent(v)
             s2 == [s1 EXCEPT !.model = removeAt(@, selectedIdx)]
             s3 == IF selectedIdx < size(s2.model)
                   THEN selectAndSetCurrentByIndex(s2, selectedIdx)
                   ELSE IF selectedIdx > 0
                        THEN selectAndSetCurrentByIndex(s2, selectedIdx - 1)
                        ELSE s2
         IN  Outcome(<<v, s1, s2, s3>>, selectedIdx, <<>>)

\* the rows left in the order in which they were selected
sortAsc_unsorted(idxs) == idxs

\* std::sort with "idx1 < idx2"
sortAsc(idxs) == SortSeq(idxs, LAMBDA idx1, idx2 : idx1 < idx2)

\* std::sort with "idx1 > idx2"
sortDesc(idxs) == SortSeq(idxs, LAMBDA idx1, idx2 : idx1 > idx2)

\* a 32-bit unsigned value as its two 16-bit halves: the conversion of an int
\* to uint (modulo 2^32)
toUInt(i) ==
    IF i >= 0
    THEN [hi |-> i \div 65536, lo |-> i % 65536]
    ELSE [hi |-> 65535 - ((-(i + 1)) \div 65536), lo |-> 65535 - ((-(i + 1)) % 65536)]

\* a - b in uint: the difference modulo 2^32
uintMinus(a, b) ==
    LET borrow == IF a.lo < b.lo THEN 1 ELSE 0
    IN  [hi |-> (a.hi - b.hi - borrow) % 65536, lo |-> (a.lo - b.lo) % 65536]

\* the conversion of a uint to the int parameter of removeAt (two's complement)
toInt(u) ==
    IF u.hi < 32768
    THEN u.hi * 65536 + u.lo
    ELSE -((65535 - u.hi) * 65536 + (65535 - u.lo)) - 1

\* "selectedIdx - deletedCnt" with int selectedIdx and uint deletedCnt, passed
\* to the int parameter of removeAt: selectedIdx is converted to uint, the
\* difference is taken modulo 2^32 and converted back to int
offsetIdx(selectedIdx, deletedCnt) ==
    toInt(uintMinus(toUInt(selectedIdx), toUInt(deletedCnt)))

\* the loop of deleteSelectedItems: the views after each removeAt
RECURSIVE deleteLoop(_, _, _)
deleteLoop(v, idxs, deletedCnt) ==
    IF idxs = <<>> THEN <<>>
    ELSE LET s == [v EXCEPT !.model = removeAt(@, offsetIdx(Head(idxs), deletedCnt))]
         IN  <<s>> \o deleteLoop(s, Tail(idxs), deletedCnt + 1)

\* deleteSelectedItems that walks through the rows from the last to the first
deleteSelectedItems_descending(v, selectedIndexes) ==
    IF selectedIndexes = <<>>
    THEN Outcome(<<v>>, <<>>, IF ~isEmpty(v.model) THEN <<NoItemSelected>> ELSE <<>>)
    ELSE LET selectedIndexesAsc == sortDesc(selectedIndexes)
             firstSelectedIdx == Last(selectedIndexesAsc)
             s1 == deselectAllAndUnsetCurrent(v)
             loop == deleteLoop(s1, selectedIndexesAsc, 0)
             s2 == Last(loop)
             s3 == IF firstSelectedIdx < size(s2.model)
                   THEN selectAndSetCurrentByIndex(s2, firstSelectedIdx)
                   ELSE IF ~isEmpty(s2.model)
                        THEN selectAndSetCurrentByIndex(s2, firstSelectedIdx - 1)
                        ELSE s2
         IN  Outcome(<<v, s1>> \o loop \o <<s3>>, selectedIndexesAsc, <<>>)

\* deleteSelectedItems that removes the items while they are still selected
deleteSelectedItems_noDeselect(v, selectedIndexes) ==
    IF selectedIndexes = <<>>
    THEN Outcome(<<v>>, <<>>, IF ~isEmpty(v.model) THEN <<NoItemSelected>> ELSE <<>>)
    ELSE LET selectedIndexesAsc == sortAsc(selectedIndexes)
             firstSelectedIdx == selectedIndexesAsc[1]
             s1 == unsetCurrentItem(v)
             loop == deleteLoop(s1, selectedIndexesAsc, 0)
             s2 == Last(loop)
             s3 == IF firstSelectedIdx < size(s2.model)
                   THEN selectAndSetCurrentByIndex(s2, firstSelectedIdx)
                   ELSE IF ~isEmpty(s2.model)
                        THEN selectAndSetCurrentByIndex(s2, firstSelectedIdx - 1)
                        ELSE s2
         IN  Outcome(<<v, s1>> \o loop \o <<s3>>, selectedIndexesAsc, <<>>)

\* deleteSelectedItems that raises the warning on an empty list as well
deleteSelectedItems_alwaysWarns(v, selectedIndexes) ==
    IF selectedIndexes = <<>>
    THEN Outcome(<<v>>, <<>>, <<NoItemSelected>>)
    ELSE LET selectedIndexesAsc == sortAsc(selectedIndexes)
             firstSelectedIdx == selectedIndexesAsc[1]
             s1 == deselectAllAndUnsetCurrent(v)
             loop == deleteLoop(s1, selectedIndexesAsc, 0)
             s2 == Last(loop)
             s3 == IF firstSelectedIdx < size(s2.model)
                   THEN selectAndSetCurrentByIndex(s2, firstSelectedIdx)
                   ELSE IF ~isEmpty(s2.model)
                        THEN selectAndSetCurrentByIndex(s2, firstSelectedIdx - 1)
                        ELSE s2
         IN  Outcome(<<v, s1>> \o loop \o <<s3>>, selectedIndexesAsc, <<>>)

\* deleteSelectedItems that selects the item before the first deleted one
\* whenever there is one
deleteSelectedItems_selectsPrevious(v, selectedIndexes) ==
    IF selectedIndexes = <<>>
    THEN Outcome(<<v>>, <<>>, IF ~isEmpty(v.model) THEN <<NoItemSelected>> ELSE <<>>)
    ELSE LET selectedIndexesAsc == sortAsc(selectedIndexes)
             firstSelectedIdx == selectedIndexesAsc[1]
             s1 == deselectAllAndUnsetCurrent(v)
             loop == deleteLoop(s1, selectedIndexesAsc, 0)
             s2 == Last(loop)
             s3 == IF firstSelectedIdx > 0
                   THEN selectAndSetCurrentByIndex(s2, firstSelectedIdx - 1)
                   ELSE IF ~isEmpty(s2.model)
                        THEN selectAndSetCurrentByIndex(s2, firstSelectedIdx)
                        ELSE s2
         IN  Outcome(<<v, s1>> \o loop \o <<s3>>, selectedIndexesAsc, <<>>)

\* deleteSelectedItems( view, model ), with selectedIndexes what
\* view->selectionModel()->selectedIndexes() returns
deleteSelectedItems(v, selectedIndexes) ==
    IF selectedIndexes = <<>>
    THEN Outcome(<<v>>, <<>>, IF ~isEmpty(v.model) THEN <<NoItemSelected>> ELSE <<>>)
    ELSE LET selectedIndexesAsc == sortAsc(selectedIndexes)
             firstSelectedIdx == selectedIndexesAsc[1]
             s1 == deselectAllAndUnsetCurrent(v)
             loop == deleteLoop(s1, selectedIndexesAsc, 0)
             s2 == Last(loop)
             s3 == IF firstSelectedIdx < size(s2.model)
                   THEN selectAndSetCurrentByIndex(s2, firstSelectedIdx)
                   ELSE IF ~isEmpty(s2.model)
                        THEN selectAndSetCurrentByIndex(s2, firstSelectedIdx - 1)
                        ELSE s2
         IN  Outcome(<<v, s1>> \o loop \o <<s3>>, selectedIndexesAsc, <<>>)

\* model.setData( idx, origName + " - clone", Qt::EditRole )
cloneName(item) == [item EXCEPT !.name = @ \o <<" - clone">>]

\* cloneSelectedItem that puts the copy right after the original
cloneSelectedItem_insertsAfter(v) ==
    LET selectedIdx == getSelectedItemIndex(v) IN
    IF selectedIdx < 0
    THEN Outcome(<<v>>, -1, getSelectedItemIndexError(v) \o <<NoItemSelected>>)
    ELSE LET s1 == deselectAllAndUnsetCurrent(v)
             s2 == [s1 EXCEPT !.model = insert(@, selectedIdx + 1, at(@, selectedIdx))]
             s3 == [s2 EXCEPT !.model[selectedIdx + 2] = cloneName(@)]
             s4 == selectAndSetCurrentByIndex(s3, selectedIdx + 1)
         IN  Outcome(<<v, s1, s2, s3, s4>>, selectedIdx, <<>>)

\* cloneSelectedItem( view, model )
cloneSelectedItem(v) ==
    LET selectedIdx == getSelectedItemIndex(v) IN
    IF selectedIdx < 0
    THEN Outcome(<<v>>, -1, getSelectedItemIndexError(v) \o <<NoItemSelected>>)
    ELSE LET s1 == deselectAllAndUnsetCurrent(v)
             s2 == [s1 EXCEPT !.model = append(@, at(@, selectedIdx))]
             s3 == [s2 EXCEPT !.model[size(s2.model)] = cloneName(@)]
             s4 == selectAndSetCurrentByIndex(s3, size(s3.model) - 1)
         IN  Outcome(<<v, s1, s2, s3, s4>>, selectedIdx, <<>>)

\* moveUpSelectedItem that leaves the moved item current
moveUpSelectedItem_currentStays(v) ==
    LET selectedIdx == getSelectedItemIndex(v) IN
    IF selectedIdx < 0
    THEN Outcome(<<v>>, -1, getSelectedItemIndexError(v) \o <<NoItemSelected>>)
    ELSE IF selectedIdx = 0
    THEN Outcome(<<v>>, selectedIdx, <<>>)
    ELSE LET s1 == unsetCurrentItem(v)
             s2 == deselectItemByIndex(s1, selectedIdx)
             s3 == [s2 EXCEPT !.model = move(@, selectedIdx, selectedIdx - 1)]
             s4 == selectAndSetCurrentByIndex(s3, selectedIdx - 1)
         IN  Outcome(<<v, s1, s2, s3, s4>>, selectedIdx, <<>>)

\* moveUpSelectedItem( view, model )
moveUpSelectedItem_noUnset(v) ==
    LET selectedIdx == getSelectedItemIndex(v) IN
    IF selectedIdx < 0
    THEN Outcome(<<v>>, -1, getSelectedItemIndexError(v) \o <<NoItemSelected>>)
    ELSE IF selectedIdx = 0
    THEN Outcome(<<v>>, selectedIdx, <<>>)
    ELSE LET currentIdx == getCurrentItemIndex(v)
             s2 == deselectItemByIndex(v, selectedIdx)
             s3 == [s2 EXCEPT !.model = move(@, selectedIdx, selectedIdx - 1)]
             s4 == selectAndSetCurrentByIndex(s3, selectedIdx - 1)
             s5 == IF currentIdx >= 1
                   THEN setCurrentItemByIndex(s4, currentIdx - 1)
                   ELSE setCurrentItemByIndex(s4, 0)
         IN  Outcome(<<v, s2, s3, s4, s5>>, selectedIdx, <<>>)

moveUpSelectedItem(v) ==
    LET selectedIdx == getSelectedItemIndex(v) IN
    IF selectedIdx < 0
    THEN Outcome(<<v>>, -1, getSelectedItemIndexError(v) \o <<NoItemSelected>>)
    ELSE IF selectedIdx = 0
    THEN Outcome(<<v>>, selectedIdx, <<>>)
    ELSE LET currentIdx == getCurrentItemIndex(v)
             s1 == unsetCurrentItem(v)
             s2 == deselectItemByIndex(s1, selectedIdx)
             s3 == [s2 EXCEPT !.model = move(@, selectedIdx, selectedIdx - 1)]
             s4 == selectAndSetCurrentByIndex(s3, selectedIdx - 1)
             s5 == IF currentIdx >= 1
                   THEN setCurrentItemByIndex(s4, currentIdx - 1)
                   ELSE setCurrentItemByIndex(s4, 0)
         IN  Outcome(<<v, s1, s2, s3, s4, s5>>, selectedIdx, <<>>)

\* moveDownSelectedItem that makes the next row current without looking
\* whether there is one
moveDownSelectedItem_noClamp(v) ==
    LET selectedIdx == getSelectedItemIndex(v) IN
    IF selectedIdx < 0
    THEN Outcome(<<v>>, -1, getSelectedItemIndexError(v) \o <<NoItemSelected>>)
    ELSE IF selectedIdx = size(v.model) - 1
    THEN Outcome(<<v>>, selectedIdx, <<>>)
    ELSE LET currentIdx == getCurrentItemIndex(v)
             s1 == unsetCurrentItem(v)
             s2 == deselectItemByIndex(s1, selectedIdx)
             s3 == [s2 EXCEPT !.model = move(@, selectedIdx, selectedIdx + 1)]
             s4 == selectAndSetCurrentByIndex(s3, selectedIdx + 1)
             s5 == setCurrentItemByIndex(s4, currentIdx + 1)
         IN  Outcome(<<v, s1, s2, s3, s4, s5>>, selectedIdx, <<>>)

\* moveDownSelectedItem( view, model )
moveDownSelectedItem(v) ==
    LET selectedIdx == getSelectedItemIndex(v) IN
    IF selectedIdx < 0
    THEN Outcome(<<v>>, -1, getSelectedItemIndexError(v) \o <<NoItemSelected>>)
    ELSE IF selectedIdx = size(v.model) - 1
    THEN Outcome(<<v>>, selectedIdx, <<>>)
    ELSE LET currentIdx == getCurrentItemIndex(v)
             s1 == unsetCurrentItem(v)
             s2 == deselectItemByIndex(s1, selectedIdx)
             s3 == [s2 EXCEPT !.model = move(@, selectedIdx, selectedIdx + 1)]
             s4 == selectAndSetCurrentByIndex(s3, selectedIdx + 1)
             s5 == IF currentIdx < size(s4.model) - 1
                   THEN setCurrentItemByIndex(s4, currentIdx + 1)
                   ELSE setCurrentItemByIndex(s4, size(s4.model) - 1)
         IN  Outcome(<<v, s1, s2, s3, s4, s5>>, selectedIdx, <<>>)

\* the loop of moveUpSelectedItems / moveDownSelectedItems (step = -1 / +1):
\* the views after each model.move and after each selectItemByIndex
RECURSIVE moveLoop(_, _, _)
moveLoop(v, idxs, step) ==
    IF idxs = <<>> THEN <<>>
    ELSE LET selectedIdx == Head(idxs)
             s1 == [v EXCEPT !.model = move(@, selectedIdx, selectedIdx + step)]
             s2 == selectItemByIndex(s1, selectedIdx + step)
         IN  <<s1, s2>> \o moveLoop(s2, Tail(idxs), step)

\* moveUpSelectedItems that clears the selection before it looks at it
moveUpSelectedItems_deselectsFirst(v, selectedIndexes) ==
    IF selectedIndexes = <<>>
    THEN Outcome(<<v, deselectAllAndUnsetCurrent(v)>>, <<>>, <<NoItemSelected>>)
    ELSE LET selectedIndexesAsc == sortAsc(selectedIndexes) IN
    IF selectedIndexesAsc[1] = 0
    THEN Outcome(<<v>>, <<>>, <<>>)
    ELSE LET currentIdx == getCurrentItemIndex(v)
             s1 == deselectAllAndUnsetCurrent(v)
             loop == moveLoop(s1, selectedIndexesAsc, -1)
             s2 == Last(loop)
             s3 == IF currentIdx >= 1
                   THEN setCurrentItemByIndex(s2, currentIdx - 1)
                   ELSE setCurrentItemByIndex(s2, 0)
         IN  Outcome(<<v, s1>> \o loop \o <<s3>>, selectedIndexesAsc, <<>>)

\* moveUpSelectedItems that leaves only the first item where it is and moves
\* the other selected items
moveUpSelectedItems_movesTheRest(v, selectedIndexes) ==
    IF selectedIndexes = <<>>
    THEN Outcome(<<v>>, <<>>, <<NoItemSelected>>)
    ELSE LET selectedIndexesAsc == sortAsc(selectedIndexes)
             movable == SelectSeq(selectedIndexesAsc,
                                  LAMBDA idx : idx > 0 /\ ~isSelectedIndex(v, idx - 1))
             currentIdx == getCurrentItemIndex(v)
             s1 == deselectAllAndUnsetCurrent(v)
             loop == moveLoop(s1, movable, -1)
             s2 == Last(<<s1>> \o loop)
             s3 == IF currentIdx >= 1
                   THEN setCurrentItemByIndex(s2, currentIdx - 1)
                   ELSE setCurrentItemByIndex(s2, 0)
         IN  Outcome(<<v, s1>> \o loop \o <<s3>>, selectedIndexesAsc, <<>>)

\* moveUpSelectedItems that makes the row current that was current before
moveUpSelectedItems_currentStays(v, selectedIndexes) ==
    IF selectedIndexes = <<>>
    THEN Outcome(<<v>>, <<>>, <<NoItemSelected>>)
    ELSE LET selectedIndexesAsc == sortAsc(selectedIndexes) IN
    IF selectedIndexesAsc[1] = 0
    THEN Outcome(<<v>>, <<>>, <<>>)
    ELSE LET currentIdx == getCurrentItemIndex(v)
             s1 == deselectAllAndUnsetCurrent(v)
             loop == moveLoop(s1, selectedIndexesAsc, -1)
             s2 == Last(loop)
             s3 == setCurrentItemByIndex(s2, currentIdx)
         IN  Outcome(<<v, s1>> \o loop \o <<s3>>, selectedIndexesAsc, <<>>)

\* moveUpSelectedItems( view, model ), with selectedIndexes what
\* view->selectionModel()->selectedIndexes() returns
moveUpSelectedItems(v, selectedIndexes) ==
    IF selectedIndexes = <<>>
    THEN Outcome(<<v>>, <<>>, <<NoItemSelected>>)
    ELSE LET selectedIndexesAsc == sortAsc(selectedIndexes) IN
    IF selectedIndexesAsc[1] = 0
    THEN Outcome(<<v>>, <<>>, <<>>)
    ELSE LET currentIdx == getCurrentItemIndex(v)
             s1 == deselectAllAndUnsetCurrent(v)
             loop == moveLoop(s1, selectedIndexesAsc, -1)
             s2 == Last(loop)
             s3 == IF currentIdx >= 1
                   THEN setCurrentItemByIndex(s2, currentIdx - 1)
                   ELSE setCurrentItemByIndex(s2, 0)
         IN  Outcome(<<v, s1>> \o loop \o <<s3>>, selectedIndexesAsc, <<>>)

\* moveDownSelectedItems that moves the items in ascending order of their rows
moveDownSelectedItems_ascending(v, selectedIndexes) ==
    IF selectedIndexes = <<>>
    THEN Outcome(<<v>>, <<>>, <<NoItemSelected>>)
    ELSE LET selectedIndexesDesc == sortDesc(selectedIndexes) IN
    IF selectedIndexesDesc[1] = size(v.model) - 1
    THEN Outcome(<<v>>, <<>>, <<>>)
    ELSE LET currentIdx == getCurrentItemIndex(v)
             s1 == deselectAllAndUnsetCurrent(v)
             loop == moveLoop(s1, sortAsc(selectedIndexes), 1)
             s2 == Last(loop)
             s3 == IF currentIdx < size(s2.model) - 1
                   THEN setCurrentItemByIndex(s2, currentIdx + 1)
                   ELSE setCurrentItemByIndex(s2, size(s2.model) - 1)
         IN  Outcome(<<v, s1>> \o loop \o <<s3>>, selectedIndexesDesc, <<>>)

\* moveDownSelectedItems( view, model ), with selectedIndexes what
\* view->selectionModel()->selectedIndexes() returns
moveDownSelectedItems(v, selectedIndexes) ==
    IF selectedIndexes = <<>>
    THEN Outcome(<<v>>, <<>>, <<NoItemSelected>>)
    ELSE LET selectedIndexesDesc == sortDesc(selectedIndexes) IN
    IF selectedIndexesDesc[1] = size(v.model) - 1
    THEN Outcome(<<v>>, <<>>, <<>>)
    ELSE LET currentIdx == getCurrentItemIndex(v)
             s1 == deselectAllAndUnsetCurrent(v)
             loop == moveLoop(s1, selectedIndexesDesc, 1)
             s2 == Last(loop)
             s3 == IF currentIdx < size(s2.model) - 1
                   THEN setCurrentItemByIndex(s2, currentIdx + 1)
                   ELSE setCurrentItemByIndex(s2, size(s2.model) - 1)
         IN  Outcome(<<v, s1>> \o loop \o <<s3>>, selectedIndexesDesc, <<>>)

\* ---------------------------------------------------------------------------
\*  complete update helpers for list-view

\* getCurrentItemID( view, model )
getCurrentItemID(v) ==
    LET selectedItemIdx == getCurrentItemIndex(v)
    IN  IF selectedItemIdx >= 0 THEN at(v.model, selectedItemIdx).id ELSE EmptyID

\* getSelectedItemIDs( view, model ), with selectedIndexes what
\* getSelectedItemIndexes( view ) returns
getSelectedItemIDs(v, selectedIndexes) ==
    [k \in 1..Len(selectedIndexes) |-> at(v.model, selectedIndexes[k]).id]

\* setCurrentItemByID that makes the first item current when the identity is
\* not found
setCurrentItemByID_firstItem(v, itemID) ==
    LET newItemIdx == findSuch(v.model, itemID) IN
    IF itemID # EmptyID /\ newItemIdx >= 0
    THEN [view |-> setCurrentItemByIndex(v, newItemIdx), ok |-> TRUE]
    ELSE [view |-> setCurrentItemByIndex(v, 0), ok |-> FALSE]

\* setCurrentItemByID( view, model, itemID ): the view it leaves and its result
setCurrentItemByID(v, itemID) ==
    LET newItemIdx == findSuch(v.model, itemID) IN
    IF itemID # EmptyID /\ newItemIdx >= 0
    THEN [view |-> setCurrentItemByIndex(v, newItemIdx), ok |-> TRUE]
    ELSE [view |-> v, ok |-> FALSE]

\* selectItemByID that selects the first item when the identity is not found
selectItemByID_firstItem(v, itemID) ==
    LET newItemIdx == findSuch(v.model, itemID) IN
    IF itemID # EmptyID /\ newItemIdx >= 0
    THEN [view |-> selectItemByIndex(v, newItemIdx), ok |-> TRUE]
    ELSE [view |-> selectItemByIndex(v, 0), ok |-> FALSE]

\* selectItemByID( view, model, itemID ): the view it leaves and its result
selectItemByID(v, itemID) ==
    LET newItemIdx == findSuch(v.model, itemID) IN
    IF itemID # EmptyID /\ newItemIdx >= 0
    THEN [view |-> selectItemByIndex(v, newItemIdx), ok |-> TRUE]
    ELSE [view |-> v, ok |-> FALSE]

\* selectItemsByIDs( view, model, itemIDs ): the views after each itemID
RECURSIVE selectItemsByIDs(_, _)
selectItemsByIDs(v, itemIDs) ==
    IF itemIDs = <<>> THEN <<>>
    ELSE LET newItemIdx == findSuch(v.model, Head(itemIDs))
             s == IF newItemIdx >= 0 THEN selectItemByIndex(v, newItemIdx) ELSE v
         IN  <<s>> \o selectItemsByIDs(s, Tail(itemIDs))

\* the identities in the order of operator< of the ItemID type (QString)
ItemIDsInOrder == <<"", "a", "b">>

\* id1 < id2
lessThan(id1, id2) ==
    \E k1, k2 \in 1..Len(ItemIDsInOrder) :
        ItemIDsInOrder[k1] = id1 /\ ItemIDsInOrder[k2] = id2 /\ k1 < k2

\* areSelectionsEqual that compares which identities occur, not how often
areSelectionsEqual_asSets(selection1, selection2) ==
    Range(selection1) = Range(selection2)

\* areSelectionsEqual( selection1, selection2 )
areSelectionsEqual(selection1, selection2) ==
    LET orderedSelection1 == SortSeq(selection1, lessThan)
        orderedSelection2 == SortSeq(selection2, lessThan)
    IN  orderedSelection1 = orderedSelection2

\* the callback without the isDesiredFile test
RECURSIVE traverseDirectory_noFilter(_, _, _)
traverseDirectory_noFilter(v, scan, isDesiredFile) ==
    IF scan = <<>> THEN <<>>
    ELSE LET s == [v EXCEPT !.model = append(@, Item(Head(scan)))]
         IN  <<s>> \o traverseDirectory_noFilter(s, Tail(scan), isDesiredFile)

\* the callback of traverseDirectory in updateListFromDir, once per scanned
\* file: the views after each file
RECURSIVE traverseDirectory(_, _, _)
traverseDirectory(v, scan, isDesiredFile) ==
    IF scan = <<>> THEN <<>>
    ELSE LET file == Head(scan)
             s == IF file \in isDesiredFile
                  THEN [v EXCEPT !.model = append(@, Item(file))]
                  ELSE v
         IN  <<s>> \o traverseDirectory(s, Tail(scan), isDesiredFile)

\* the rows of a sequence of rows, selected one after the other
RECURSIVE selectItemsByIndexes(_, _)
selectItemsByIndexes(v, idxs) ==
    IF idxs = <<>> THEN <<>>
    ELSE LET s == selectItemByIndex(v, Head(idxs))
         IN  <<s>> \o selectItemsByIndexes(s, Tail(idxs))

\* updateListFromDir that notes down rows instead of identities
updateListFromDir_byIndex(v, selectedIndexes, scan, isDesiredFile) ==
    LET currentIdx == getCurrentItemIndex(v)
        s1 == deselectAllAndUnsetCurrent(v)
        s2 == [s1 EXCEPT !.model = clear(@)]
        fill == traverseDirectory(s2, scan, isDesiredFile)
        s3 == Last(<<s2>> \o fill)
        restore == selectItemsByIndexes(s3, selectedIndexes)
        s4 == Last(<<s3>> \o restore)
        s5 == setCurrentItemByIndex(s4, currentIdx)
    IN  Outcome(<<v, s1, s2>> \o fill \o restore \o <<s5>>, 0, <<>>)

\* updateListFromDir without model.clear()
updateListFromDir_noClear(v, selectedIndexes, scan, isDesiredFile) ==
    LET currentItemID == getCurrentItemID(v)
        selectedItemIDs == getSelectedItemIDs(v, selectedIndexes)
        s1 == deselectAllAndUnsetCurrent(v)
        fill == traverseDirectory(s1, scan, isDesiredFile)
        s3 == Last(<<s1>> \o fill)
        restore == selectItemsByIDs(s3, selectedItemIDs)
        s4 == Last(<<s3>> \o restore)
        s5 == setCurrentItemByID(s4, currentItemID).view
    IN  Outcome(<<v, s1>> \o fill \o restore \o <<s5>>, 0, <<>>)

\* updateListFromDir that calls deselectAllAndUnsetCurrent after the list is
\* filled instead of before it is cleared
updateListFromDir_lateDeselect(v, selectedIndexes, scan, isDesiredFile) ==
    LET currentItemID == getCurrentItemID(v)
        selectedItemIDs == getSelectedItemIDs(v, selectedIndexes)
        s1 == [v EXCEPT !.model = clear(@)]
        fill == traverseDirectory(s1, scan, isDesiredFile)
        s2 == Last(<<s1>> \o fill)
        s3 == deselectAllAndUnsetCurrent(s2)
        restore == selectItemsByIDs(s3, selectedItemIDs)
        s4 == Last(<<s3>> \o restore)
        s5 == setCurrentItemByID(s4, currentItemID).view
    IN  Outcome(<<v, s1>> \o fill \o <<s3>> \o restore \o <<s5>>, 0, <<>>)

\* updateListFromDir( model, view, dir, recursively, pathContext, isDesiredFile )
\* with scan the files that traverseDirectory finds in dir and selectedIndexes
\* the selected rows in the order the view returns them
updateListFromDir(v, selectedIndexes, scan, isDesiredFile) ==
    LET currentItemID == getCurrentItemID(v)
        selectedItemIDs == getSelectedItemIDs(v, selectedIndexes)
        s1 == deselectAllAndUnsetCurrent(v)
        s2 == [s1 EXCEPT !.model = clear(@)]
        fill == traverseDirectory(s2, scan, isDesiredFile)
        s3 == Last(<<s2>> \o fill)
        restore == selectItemsByIDs(s3, selectedItemIDs)
        s4 == Last(<<s3>> \o restore)
        s5 == setCurrentItemByID(s4, currentItemID).view
    IN  Outcome(<<v, s1, s2>> \o fill \o restore \o <<s5>>, 0, <<>>)

\* ---------------------------------------------------------------------------
\*  complete update helpers for combo-box: a combo box is its model and its
\*  current index

\* setCurrentItemByID( QComboBox * view, model, itemID ): the combo box it
\* leaves and its result
setCurrentItemByID_QComboBox(cb, itemID) ==
    LET newItemIdx == findSuch(cb.model, itemID) IN
    IF itemID # EmptyID /\ newItemIdx >= 0
    THEN [view |-> [cb EXCEPT !.cur = newItemIdx], ok |-> TRUE]
    ELSE [view |-> cb, ok |-> FALSE]

\* model.append( QString() ): the item that expresses "no selection"; its
\* display text is the empty string
emptyItem == [id |-> EmptyID, name |-> <<>>]

\* QComboBox::itemText( index ): the display text of the item, the empty
\* string for an invalid index
itemText(cb, index) == IF validRow(cb, index) THEN at(cb.model, index).name ELSE <<>>

\* QComboBox::currentText() of a combo box that is not editable
currentText(cb) == itemText(cb, cb.cur)

\* QComboBox::findText( text ): the first row whose display text is text, or -1
findText(cb, text) ==
    IF \E k \in 1..size(cb.model) : cb.model[k].name = text
    THEN (CHOOSE k \in 1..size(cb.model) :
              /\ cb.model[k].name = text
              /\ \A j \in 1..(k - 1) : cb.model[j].name # text) - 1
    ELSE -1

\* QComboBox::setCurrentIndex( index )
setCurrentIndex(cb, index) == [cb EXCEPT !.cur = IF validRow(cb, index) THEN index ELSE -1]

\* updateComboBoxFromDir that notes down the current row instead of its text
updateComboBoxFromDir_byIndex(cb, scan, includeEmptyItem, isDesiredFile) ==
    LET lastIndex == cb.cur
        s1 == setCurrentIndex(cb, -1)
        s2 == [s1 EXCEPT !.model = clear(@)]
        s3 == IF includeEmptyItem THEN [s2 EXCEPT !.model = append(@, emptyItem)] ELSE s2
        fill == traverseDirectory(s3, scan, isDesiredFile)
        s4 == Last(<<s3>> \o fill)
        s5 == setCurrentIndex(s4, lastIndex)
    IN  Outcome(<<cb, s1, s2, s3>> \o fill \o <<s5>>, 0, <<>>)

\* updateComboBoxFromDir( model, view, dir, recursively, includeEmptyItem,
\* pathContext, isDesiredFile ) with scan the files that traverseDirectory
\* finds in dir
updateComboBoxFromDir(cb, scan, includeEmptyItem, isDesiredFile) ==
    LET lastText == currentText(cb)
        s1 == setCurrentIndex(cb, -1)
        s2 == [s1 EXCEPT !.model = clear(@)]
        s3 == IF includeEmptyItem THEN [s2 EXCEPT !.model = append(@, emptyItem)] ELSE s2
        fill == traverseDirectory(s3, scan, isDesiredFile)
        s4 == Last(<<s3>> \o fill)
        s5 == setCurrentIndex(s4, findText(s4, lastText))
    IN  Outcome(<<cb, s1, s2, s3>> \o fill \o <<s5>>, 0, <<>>)

\* ---------------------------------------------------------------------------
\*  the state machine: one list view and the calls made on it

VARIABLES
    model,          \* the items of the list
    selectedRows,   \* the set of selected rows
    currentIndex,   \* current row, -1 when unset
    lastOp,         \* the function that has just returned, "idle" in the event loop
    args,           \* its arguments
    pre,            \* the view it was called on
    trace,          \* the views it passed through
    ret,            \* its return value
    msgs,           \* the message boxes it raised
    statics,        \* the function-local static objects, <<>> until constructed
    errorMessageDisplayed   \* the flag of the PathChecker of the running slot

vars == <<model, selectedRows, currentIndex, lastOp, args, pre, trace, ret, msgs,
          statics, errorMessageDisplayed>>

\* what no list operation touches
rest == <<statics, errorMessageDisplayed>>

\* no function with a static local object has run yet
NoStatics == [snapRegex |-> <<>>, flatpakRegex |-> <<>>]

View == [model |-> model, sel |-> selectedRows, cur |-> currentIndex]

NoArgs ==
    [item |-> Item("a"), index |-> -1, selectedIndexes |-> <<>>, scan |-> <<>>,
     isDesiredFile |-> {}, unchangedDir |-> FALSE, itemID |-> EmptyID, itemIDs |-> <<>>,
     comboBox |-> [model |-> <<>>, cur |-> -1], selection1 |-> <<>>, selection2 |-> <<>>,
     executablePath |-> <<>>, base |-> [useAbsolutePaths |-> FALSE], dirsToBeAccessed |-> <<>>,
     env |-> [FLATPAK_BUILD |-> FALSE, isWindows |-> FALSE, searchPath |-> <<>>],
     argsStr |-> <<>>, checks |-> <<>>, includeEmptyItem |-> FALSE]

call == <<lastOp, args, pre, trace, ret, msgs>>

NoView == [model |-> <<>>, sel |-> {}, cur |-> -1]

\* no call is being looked at: the application waits in the event loop
Idle ==
    /\ lastOp = "idle"
    /\ args = NoArgs
    /\ pre = NoView
    /\ trace = <<>>
    /\ ret = 0
    /\ msgs = <<>>

Init ==
    /\ model = <<>>
    /\ selectedRows = {}
    /\ currentIndex = -1
    /\ statics = NoStatics
    /\ errorMessageDisplayed = FALSE
    /\ Idle

\* a call of a button action or of updateListFromDir: the view becomes the
\* last view of the call, the rest records the call
Call(op, a, out) ==
    /\ lastOp = "idle"
    /\ model' = Last(out.trace).model
    /\ selectedRows' = Last(out.trace).sel
    /\ currentIndex' = Last(out.trace).cur
    /\ lastOp' = op
    /\ args' = a
    /\ pre' = View
    /\ trace' = out.trace
    /\ ret' = out.ret
    /\ msgs' = out.msgs
    /\ UNCHANGED rest

\* the user or the application changes the selection or the current item
\* through one of the list view helpers
Helper(v) ==
    /\ lastOp = "idle"
    /\ model' = v.model
    /\ selectedRows' = v.sel
    /\ currentIndex' = v.cur
    /\ UNCHANGED <<call, rest>>

\* the slot that made the call returns to the event loop: the view stays as
\* the call left it
ReturnToEventLoop ==
    /\ lastOp # "idle"
    /\ lastOp' = "idle"
    /\ args' = NoArgs
    /\ pre' = NoView
    /\ trace' = <<>>
    /\ ret' = 0
    /\ msgs' = <<>>
    /\ errorMessageDisplayed' = FALSE
    /\ UNCHANGED <<model, selectedRows, currentIndex, statics>>

Rows == 0..(size(model) - 1)

SelectItemByIndex == \E i \in Rows : Helper(selectItemByIndex(View, i))

DeselectItemByIndex == \E i \in Rows : Helper(deselectItemByIndex(View, i))

SetCurrentItemByIndex == \E i \in Rows : Helper(setCurrentItemByIndex(View, i))

UnsetCurrentItem ==
    /\ currentIndex >= 0
    /\ Helper(unsetCurrentItem(View))

ChooseItemByIndex == \E i \in Rows : Helper(chooseItemByIndex(View, i))

AppendItem ==
    /\ size(model) < MaxLen
    /\ \E f \in Files :
        Call("appendItem", [NoArgs EXCEPT !.item = Item(f)], appendItem(View, Item(f)))

PrependItem ==
    /\ size(model) < MaxLen
    /\ \E f \in Files :
        Call("prependItem", [NoArgs EXCEPT !.item = Item(f)], prependItem(View, Item(f)))

InsertItem ==
    /\ size(model) < MaxLen
    /\ \E f \in Files, i \in 0..size(model) :
        Call("insertItem", [NoArgs EXCEPT !.item = Item(f), !.index = i],
             insertItem(View, Item(f), i))

DeleteSelectedItem ==
    /\ lastOp = "idle"
    /\ Call("deleteSelectedItem", NoArgs, deleteSelectedItem(View))

DeleteSelectedItems ==
    \E selectedIndexes \in Orders(selectedRows) :
        Call("deleteSelectedItems", [NoArgs EXCEPT !.selectedIndexes = selectedIndexes],
             deleteSelectedItems(View, selectedIndexes))

\* number of " - clone" postfixes of a display name
Clones(item) == Len(item.name) - 1

\* number of " - clone" postfixes in the whole list
RECURSIVE ClonesIn(_)
ClonesIn(m) == IF m = <<>> THEN 0 ELSE Clones(Head(m)) + ClonesIn(Tail(m))

CloneSelectedItem ==
    /\ size(model) < MaxLen
    /\ ClonesIn(model) < MaxClones
    /\ Call("cloneSelectedItem", NoArgs, cloneSelectedItem(View))

MoveUpSelectedItem ==
    /\ lastOp = "idle"
    /\ Call("moveUpSelectedItem", NoArgs, moveUpSelectedItem(View))

MoveDownSelectedItem ==
    /\ lastOp = "idle"
    /\ Call("moveDownSelectedItem", NoArgs, moveDownSelectedItem(View))

MoveUpSelectedItems ==
    \E selectedIndexes \in Orders(selectedRows) :
        Call("moveUpSelectedItems", [NoArgs EXCEPT !.selectedIndexes = selectedIndexes],
             moveUpSelectedItems(View, selectedIndexes))

MoveDownSelectedItems ==
    \E selectedIndexes \in Orders(selectedRows) :
        Call("moveDownSelectedItems", [NoArgs EXCEPT !.selectedIndexes = selectedIndexes],
             moveDownSelectedItems(View, selectedIndexes))

UpdateListFromDir ==
    \E selectedIndexes \in Orders(selectedRows), scan \in Scans, isDesiredFile \in Predicates :
        Call("updateListFromDir",
             [NoArgs EXCEPT !.selectedIndexes = selectedIndexes, !.scan = scan,
                            !.isDesiredFile = isDesiredFile],
             updateListFromDir(View, selectedIndexes, scan, isDesiredFile))

\* the periodic update (timerEvent -> updateListsFromDirs) comes round again
\* before anything else happened: same directory content, same predicate
UpdateListFromDirAgain ==
    /\ lastOp = "updateListFromDir"
    /\ ~args.unchangedDir
    /\ \E selectedIndexes \in Orders(selectedRows) :
        LET out == updateListFromDir(View, selectedIndexes, args.scan, args.isDesiredFile) IN
        /\ model' = Last(out.trace).model
        /\ selectedRows' = Last(out.trace).sel
        /\ currentIndex' = Last(out.trace).cur
        /\ lastOp' = "updateListFromDir"
        /\ args' = [args EXCEPT !.selectedIndexes = selectedIndexes, !.unchangedDir = TRUE]
        /\ pre' = View
        /\ trace' = out.trace
        /\ ret' = out.ret
        /\ msgs' = out.msgs
        /\ UNCHANGED rest

\* the user presses "move down" right after "move up", with the selection as
\* the first move left it: pre stays the view before the two moves, trace
\* runs through both
MoveUpThenDownSelectedItem ==
    /\ lastOp = "moveUpSelectedItem"
    /\ Cardinality(pre.sel) = 1
    /\ LET out == moveDownSelectedItem(View) IN
        /\ model' = Last(out.trace).model
        /\ selectedRows' = Last(out.trace).sel
        /\ currentIndex' = Last(out.trace).cur
        /\ lastOp' = "moveUpThenDownSelectedItem"
        /\ trace' = trace \o out.trace
        /\ ret' = out.ret
        /\ msgs' = msgs \o out.msgs
        /\ UNCHANGED <<args, pre, rest>>

\* the user presses "delete" right after an item was inserted: pre stays the
\* view before the insertion, trace runs through both calls
InsertThenDeleteSelectedItem ==
    /\ lastOp = "insertItem"
    /\ LET out == deleteSelectedItem(View) IN
        /\ model' = Last(out.trace).model
        /\ selectedRows' = Last(out.trace).sel
        /\ currentIndex' = Last(out.trace).cur
        /\ lastOp' = "insertItemThenDeleteSelectedItem"
        /\ trace' = trace \o out.trace
        /\ ret' = out.ret
        /\ msgs' = msgs \o out.msgs
        /\ UNCHANGED <<args, pre, rest>>

\* the user keeps pressing "delete", with the selection as the previous call
\* left it, once more than the list had items: pre stays the view before the
\* first call, trace runs through all calls, ret holds the value returned by
\* each call
DeleteSelectedItemAgain ==
    /\ lastOp \in {"deleteSelectedItem", "deleteSelectedItemRepeatedly"}
    /\ (IF lastOp = "deleteSelectedItem" THEN 1 ELSE Len(ret)) <= size(pre.model)
    /\ LET out == deleteSelectedItem(View) IN
        /\ model' = Last(out.trace).model
        /\ selectedRows' = Last(out.trace).sel
        /\ currentIndex' = Last(out.trace).cur
        /\ lastOp' = "deleteSelectedItemRepeatedly"
        /\ trace' = trace \o out.trace
        /\ ret' = (IF lastOp = "deleteSelectedItem" THEN <<ret>> ELSE ret) \o <<out.ret>>
        /\ msgs' = msgs \o out.msgs
        /\ UNCHANGED <<args, pre, rest>>

\* the identities a caller restores: those of the files and the empty one
ItemIDs == Files \cup {EmptyID}

\* the lists of identities a caller restores
ItemIDLists == Tuples(ItemIDs, 2)

SetCurrentItemByID ==
    /\ lastOp = "idle"
    /\ \E itemID \in ItemIDs :
        LET r == setCurrentItemByID(View, itemID) IN
        Call("setCurrentItemByID", [NoArgs EXCEPT !.itemID = itemID],
             Outcome(<<View, r.view>>, r.ok, <<>>))

SelectItemByID ==
    /\ lastOp = "idle"
    /\ \E itemID \in ItemIDs :
        LET r == selectItemByID(View, itemID) IN
        Call("selectItemByID", [NoArgs EXCEPT !.itemID = itemID],
             Outcome(<<View, r.view>>, r.ok, <<>>))

SelectItemsByIDs ==
    /\ lastOp = "idle"
    /\ \E itemIDs \in ItemIDLists :
        Call("selectItemsByIDs", [NoArgs EXCEPT !.itemIDs = itemIDs],
             Outcome(<<View>> \o selectItemsByIDs(View, itemIDs), 0, <<>>))

\* a combo box that shows the same model, with any current index: the call
\* does not touch the list view, the combo box it leaves is part of ret
SetCurrentItemByID_QComboBox ==
    \E itemID \in ItemIDs, current \in -1..(size(model) - 1) :
        LET cb == [model |-> model, cur |-> current] IN
        Call("setCurrentItemByID_QComboBox",
             [NoArgs EXCEPT !.itemID = itemID, !.comboBox = cb],
             Outcome(<<View>>, setCurrentItemByID_QComboBox(cb, itemID), <<>>))

\* the user picks an entry of the combo box
SetCurrentIndex ==
    /\ selectedRows = {}
    /\ \E index \in Rows : Helper(setCurrentIndex(View, index))

\* the combo box is filled from its directory: the view is a combo box here,
\* which has a current index and no selection
UpdateComboBoxFromDir ==
    /\ selectedRows = {}
    /\ \E scan \in Scans, includeEmptyItem \in BOOLEAN, isDesiredFile \in Predicates :
        Call("updateComboBoxFromDir",
             [NoArgs EXCEPT !.scan = scan, !.includeEmptyItem = includeEmptyItem,
                            !.isDesiredFile = isDesiredFile],
             updateComboBoxFromDir(View, scan, includeEmptyItem, isDesiredFile))

\* the selections a caller compares: identities in the order in which the
\* user selected the items, or as a preset stored them
Selections == Tuples(ItemIDs, MaxLen)

\* a comparison of two selections; the list view is not touched
AreSelectionsEqual ==
    /\ lastOp = "idle"
    /\ \E selection1, selection2 \in Selections :
        Call("areSelectionsEqual",
             [NoArgs EXCEPT !.selection1 = selection1, !.selection2 = selection2],
             Outcome(<<View>>, areSelectionsEqual(selection1, selection2), <<>>))

\* ---------------------------------------------------------------------------
\* OSUtils.cpp: the command that launches an engine executable
\*
\* A QString is a sequence of fragments. The path separator "/" is a fragment
\* of its own, so "/usr/bin/gzdoom" is <<"/", "usr", "/", "bin", "/", "gzdoom">>
\* and concatenation of strings is \o. A QStringList is a sequence of strings.

\* fragments that contain a space
FragmentsWithSpace == {"my mods"}

\* the current working directory, which is also the base directory of the PathContext
WorkingDir == <<"/", "home">>

\* QApplication::applicationDirPath() of a launcher packaged as Flatpak
applicationDirPath == <<"/", "app", "/", "bin">>

startsWith(string, prefix) ==
    /\ Len(string) >= Len(prefix)
    /\ SubSeq(string, 1, Len(prefix)) = prefix

contains(string, fragment) == \E k \in 1..Len(string) : string[k] = fragment

containsSpace(string) == \E k \in 1..Len(string) : string[k] \in FragmentsWithSpace

\* position of the last "/" of the path, 0 if there is none
lastSeparator(path) ==
    IF contains(path, "/")
    THEN CHOOSE k \in 1..Len(path) :
            /\ path[k] = "/"
            /\ \A j \in (k + 1)..Len(path) : path[j] # "/"
    ELSE 0

isAbsolutePath(path) == path # <<>> /\ Head(path) = "/"

\* FileSystemUtils: QFileInfo( path ).absoluteFilePath()
getAbsolutePath(path) ==
    IF isAbsolutePath(path) THEN path ELSE WorkingDir \o <<"/">> \o path

\* FileSystemUtils: QFileInfo( path ).fileName()
getFileNameFromPath(path) == SubSeq(path, lastSeparator(path) + 1, Len(path))

\* FileSystemUtils: QFileInfo( path ).absolutePath(); the directory of "/file" is "/"
getAbsoluteDirOfFile(path) ==
    LET absolutePath == getAbsolutePath(path)
        separatorIdx == lastSeparator(absolutePath)
    IN  IF separatorIdx = 1 THEN <<"/">> ELSE SubSeq(absolutePath, 1, separatorIdx - 1)

RECURSIVE parentDirs(_)
\* one "../" for every directory of the path from the root down to dir
parentDirs(dir) ==
    IF ~contains(dir, "/") THEN <<>>
    ELSE <<"..", "/">> \o parentDirs(SubSeq(dir, 1, lastSeparator(dir) - 1))

\* FileSystemUtils: QDir( baseDir ).relativeFilePath( path )
getRelativePath(path) ==
    IF ~isAbsolutePath(path) THEN path
    ELSE IF startsWith(path, WorkingDir \o <<"/">>)
         THEN SubSeq(path, Len(WorkingDir) + 2, Len(path))
         ELSE parentDirs(WorkingDir) \o Tail(path)

\* PathContext::rebasePath: absolute or relative to the base directory, per the toggle
rebasePath(base, path) ==
    IF base.useAbsolutePaths THEN getAbsolutePath(path) ELSE getRelativePath(path)

quoted(string) == <<"\"">> \o string \o <<"\"">>

\* PathContext::maybeQuoted: quotes surround a string that contains spaces
maybeQuoted(base, string) == IF containsSpace(string) THEN quoted(string) ELSE string

\* QStandardPaths::findExecutable: the file of that name found in the
\* directories of the search path, empty if there is none
findExecutable(env, fileName) ==
    IF env.searchPath # <<>> /\ getFileNameFromPath(env.searchPath) = fileName
    THEN env.searchPath
    ELSE <<>>

isInSearchPath(env, filePath) ==
    findExecutable(env, getFileNameFromPath(filePath)) = filePath

snapRegex == <<"/", "snap", "/">>

\* "^/var/lib/flatpak/app/([^/]+)/": the prefix, one directory name, and "/"
flatpakRegexPrefix == <<"/", "var", "/", "lib", "/", "flatpak", "/", "app", "/">>

\* a function-local static object: constructed from its initializer by the
\* first pass, the same object in every later pass
staticLocal(object, initializer) == IF object = <<>> THEN initializer ELSE object

\* the static objects after a pass through getExecutableTraits
constructed(objects) ==
    [snapRegex |-> staticLocal(objects.snapRegex, snapRegex),
     flatpakRegex |-> staticLocal(objects.flatpakRegex, flatpakRegexPrefix)]

\* flatpakRegex.match( string ).hasMatch(), for the prefix the regex object holds
flatpakRegexMatches(prefix, string) ==
    /\ startsWith(string, prefix)
    /\ Len(string) >= Len(prefix) + 2
    /\ string[Len(prefix) + 1] # "/"
    /\ string[Len(prefix) + 2] = "/"

getExecutableTraits_snapDirName(executablePath) ==
    LET regexes == constructed(statics)
    IN  IF startsWith(executablePath, regexes.snapRegex)
        THEN [sandboxEnv |-> "Snap",
              sandboxAppName |-> <<executablePath[Len(regexes.snapRegex) + 1]>>]
        ELSE IF flatpakRegexMatches(regexes.flatpakRegex, executablePath)
        THEN [sandboxEnv |-> "Flatpak",
              sandboxAppName |-> <<executablePath[Len(regexes.flatpakRegex) + 1]>>]
        ELSE [sandboxEnv |-> "None", sandboxAppName |-> <<>>]

getExecutableTraits(executablePath) ==
    LET regexes == constructed(statics)
    IN  IF startsWith(executablePath, regexes.snapRegex)
        THEN [sandboxEnv |-> "Snap",
              sandboxAppName |-> getFileNameFromPath(executablePath)]
        ELSE IF flatpakRegexMatches(regexes.flatpakRegex, executablePath)
        THEN [sandboxEnv |-> "Flatpak",
              sandboxAppName |-> <<executablePath[Len(regexes.flatpakRegex) + 1]>>]
        ELSE [sandboxEnv |-> "None", sandboxAppName |-> <<>>]

fixExePath_always(env, exePath) ==
    IF ~env.isWindows
    THEN <<".", "/">> \o exePath
    ELSE exePath

fixExePath(env, exePath) ==
    IF ~env.isWindows /\ ~contains(exePath, "/")
    THEN <<".", "/">> \o exePath
    ELSE exePath

ShellCommand(executable, arguments, extraPermissions) ==
    [executable |-> executable, arguments |-> arguments,
     extraPermissions |-> extraPermissions]

fileSystemPermissions_reversed(dirsToBeAccessed) ==
    [k \in 1..Len(dirsToBeAccessed) |->
        <<"--filesystem=">>
            \o getAbsolutePath(dirsToBeAccessed[Len(dirsToBeAccessed) + 1 - k])]

\* the fileSystemPermission of every pass of the loop over dirsToBeAccessed
fileSystemPermissions(dirsToBeAccessed) ==
    [k \in 1..Len(dirsToBeAccessed) |->
        <<"--filesystem=">> \o getAbsolutePath(dirsToBeAccessed[k])]

getRunCommand_escapeLast(executablePath, base, dirsToBeAccessed, env) ==
    LET traits == getExecutableTraits(executablePath)
        permissions == fileSystemPermissions(dirsToBeAccessed)
        hostEscape ==
            IF env.FLATPAK_BUILD THEN << <<"flatpak-spawn">>, <<"--host">> >> ELSE <<>>
        cmdParts ==
            (IF traits.sandboxEnv = "Snap"
             THEN << <<"snap">>, <<"run">>, traits.sandboxAppName >>
             ELSE IF traits.sandboxEnv = "Flatpak"
             THEN << <<"flatpak">>, <<"run">> >>
                  \o [k \in 1..Len(permissions) |-> maybeQuoted(base, permissions[k])]
                  \o << traits.sandboxAppName >>
             ELSE IF isInSearchPath(env, executablePath)
             THEN << getFileNameFromPath(executablePath) >>
             ELSE << maybeQuoted(base, fixExePath(env, rebasePath(base, executablePath))) >>)
            \o hostEscape
        extraPermissions ==
            IF traits.sandboxEnv = "Flatpak" THEN permissions ELSE <<>>
    IN  IF env.FLATPAK_BUILD /\ getAbsoluteDirOfFile(executablePath) = applicationDirPath
        THEN ShellCommand(getFileNameFromPath(executablePath), <<>>, <<>>)
        ELSE ShellCommand(Head(cmdParts), Tail(cmdParts), extraPermissions)

getRunCommand_staticParts(executablePath, base, dirsToBeAccessed, env) ==
    LET traits == getExecutableTraits(executablePath)
        permissions == fileSystemPermissions(dirsToBeAccessed)
        hostEscape ==
            IF env.FLATPAK_BUILD THEN << <<"flatpak-spawn">>, <<"--host">> >> ELSE <<>>
        leftover ==
            IF lastOp = "getRunCommand" THEN <<ret.executable>> \o ret.arguments ELSE <<>>
        cmdParts ==
            leftover \o hostEscape \o
            (IF traits.sandboxEnv = "Snap"
             THEN << <<"snap">>, <<"run">>, traits.sandboxAppName >>
             ELSE IF traits.sandboxEnv = "Flatpak"
             THEN << <<"flatpak">>, <<"run">> >>
                  \o [k \in 1..Len(permissions) |-> maybeQuoted(base, permissions[k])]
                  \o << traits.sandboxAppName >>
             ELSE IF isInSearchPath(env, executablePath)
             THEN << getFileNameFromPath(executablePath) >>
             ELSE << maybeQuoted(base, fixExePath(env, rebasePath(base, executablePath))) >>)
        extraPermissions ==
            IF traits.sandboxEnv = "Flatpak" THEN permissions ELSE <<>>
    IN  IF env.FLATPAK_BUILD /\ getAbsoluteDirOfFile(executablePath) = applicationDirPath
        THEN ShellCommand(getFileNameFromPath(executablePath), <<>>, <<>>)
        ELSE ShellCommand(Head(cmdParts), Tail(cmdParts), extraPermissions)

\* getRunCommand that looks at the search path before it looks at the sandbox
getRunCommand_searchPathFirst(executablePath, base, dirsToBeAccessed, env) ==
    LET traits == getExecutableTraits(executablePath)
        permissions == fileSystemPermissions(dirsToBeAccessed)
        hostEscape ==
            IF env.FLATPAK_BUILD THEN << <<"flatpak-spawn">>, <<"--host">> >> ELSE <<>>
        cmdParts ==
            hostEscape \o
            (IF isInSearchPath(env, executablePath)
             THEN << getFileNameFromPath(executablePath) >>
             ELSE IF traits.sandboxEnv = "Snap"
             THEN << <<"snap">>, <<"run">>, traits.sandboxAppName >>
             ELSE IF traits.sandboxEnv = "Flatpak"
             THEN << <<"flatpak">>, <<"run">> >>
                  \o [k \in 1..Len(permissions) |-> maybeQuoted(base, permissions[k])]
                  \o << traits.sandboxAppName >>
             ELSE << maybeQuoted(base, fixExePath(env, rebasePath(base, executablePath))) >>)
        extraPermissions ==
            IF traits.sandboxEnv = "Flatpak" /\ ~isInSearchPath(env, executablePath)
            THEN permissions ELSE <<>>
    IN  IF env.FLATPAK_BUILD /\ getAbsoluteDirOfFile(executablePath) = applicationDirPath
        THEN ShellCommand(getFileNameFromPath(executablePath), <<>>, <<>>)
        ELSE ShellCommand(Head(cmdParts), Tail(cmdParts), extraPermissions)

getRunCommand(executablePath, base, dirsToBeAccessed, env) ==
    LET traits == getExecutableTraits(executablePath)
        permissions == fileSystemPermissions(dirsToBeAccessed)
        hostEscape ==
            IF env.FLATPAK_BUILD THEN << <<"flatpak-spawn">>, <<"--host">> >> ELSE <<>>
        cmdParts ==
            hostEscape \o
            (IF traits.sandboxEnv = "Snap"
             THEN << <<"snap">>, <<"run">>, traits.sandboxAppName >>
             ELSE IF traits.sandboxEnv = "Flatpak"
             THEN << <<"flatpak">>, <<"run">> >>
                  \o [k \in 1..Len(permissions) |-> maybeQuoted(base, permissions[k])]
                  \o << traits.sandboxAppName >>
             ELSE IF isInSearchPath(env, executablePath)
             THEN << getFileNameFromPath(executablePath) >>
             ELSE << maybeQuoted(base, fixExePath(env, rebasePath(base, executablePath))) >>)
        extraPermissions ==
            IF traits.sandboxEnv = "Flatpak" THEN permissions ELSE <<>>
    IN  IF env.FLATPAK_BUILD /\ getAbsoluteDirOfFile(executablePath) = applicationDirPath
        THEN ShellCommand(getFileNameFromPath(executablePath), <<>>, <<>>)
        ELSE ShellCommand(Head(cmdParts), Tail(cmdParts), extraPermissions)

\* the engine executables the user can have picked
ExecutablePaths ==
    { <<"/", "snap", "/", "bin", "/", "gzdoom">>,
      <<"/", "var", "/", "lib", "/", "flatpak", "/", "app", "/", "org.zdoom.GZDoom", "/",
        "current", "/", "gzdoom">>,
      <<"/", "var", "/", "lib", "/", "flatpak", "/", "app", "/", "gzdoom">>,
      <<"/", "usr", "/", "bin", "/", "gzdoom">>,
      <<"/", "home", "/", "gzdoom">>,
      <<"/", "my mods", "/", "gzdoom">>,
      <<"/", "app", "/", "bin", "/", "gzdoom">>,
      <<"gzdoom">> }

\* the directories of the files the engine is asked to load
Dirs == { <<"/", "a">>, <<"/", "b">>, <<"/", "my mods">>, <<"mods">> }

\* what findExecutable can find for "gzdoom": nothing, or the file in a directory of PATH
SearchPaths ==
    { <<>>,
      <<"/", "usr", "/", "bin", "/", "gzdoom">>,
      <<"/", "snap", "/", "bin", "/", "gzdoom">>,
      <<"/", "app", "/", "bin", "/", "gzdoom">>,
      <<"/", "var", "/", "lib", "/", "flatpak", "/", "app", "/", "org.zdoom.GZDoom", "/",
        "current", "/", "gzdoom">> }

Environments ==
    [FLATPAK_BUILD : BOOLEAN, isWindows : BOOLEAN, searchPath : SearchPaths]

GetRunCommand ==
    /\ lastOp = "idle"
    /\ \E executablePath \in ExecutablePaths, useAbsolutePaths \in BOOLEAN,
          dirsToBeAccessed \in Tuples(Dirs, MaxDirs), env \in Environments :
        LET base == [useAbsolutePaths |-> useAbsolutePaths]
        IN  /\ lastOp' = "getRunCommand"
            /\ args' = [NoArgs EXCEPT !.executablePath = executablePath, !.base = base,
                                      !.dirsToBeAccessed = dirsToBeAccessed, !.env = env]
            /\ pre' = View
            /\ trace' = <<View>>
            /\ ret' = getRunCommand(executablePath, base, dirsToBeAccessed, env)
            /\ msgs' = <<>>
            /\ statics' = constructed(statics)
            /\ UNCHANGED <<model, selectedRows, currentIndex, errorMessageDisplayed>>

\* a second invocation with the inputs of the one before, in the state the
\* first one left: the static regular expressions of getExecutableTraits are
\* the objects that outlive an invocation; ret becomes the list of both commands
GetRunCommandAgain ==
    /\ lastOp = "getRunCommand"
    /\ lastOp' = "getRunCommandAgain"
    /\ ret' = <<ret, getRunCommand(args.executablePath, args.base,
                                   args.dirsToBeAccessed, args.env)>>
    /\ trace' = trace \o <<View>>
    /\ statics' = constructed(statics)
    /\ UNCHANGED <<model, selectedRows, currentIndex, args, pre, msgs,
                   errorMessageDisplayed>>


\* ---------------------------------------------------------------------------
\* MiscUtils.cpp: splitCommandLineArguments
\*
\* The string is a sequence of characters.

backslash == "\\"
quote == "\""
space == " "

\* the characters of the strings that are split
Characters == {"a", "n", space, quote, backslash}

Argument(str, wasQuoted) == [str |-> str, wasQuoted |-> wasQuoted]

\* the locals before the first pass of the loop
beforeLoop == [args |-> <<>>, currentArg |-> <<>>, escaped |-> FALSE, inQuotes |-> FALSE]

\* the pending token, if there is one, goes to the arguments
flushed(st, wasQuoted) ==
    IF st.currentArg # <<>>
    THEN [st EXCEPT !.args = Append(@, Argument(st.currentArg, wasQuoted)),
                    !.currentArg = <<>>]
    ELSE st

loopBody_splitsInQuotes(st, currentChar) ==
    IF st.escaped
    THEN [st EXCEPT !.escaped = FALSE, !.currentArg = Append(@, currentChar)]
    ELSE IF st.inQuotes
    THEN IF currentChar = backslash
         THEN [st EXCEPT !.escaped = TRUE]
         ELSE IF currentChar = quote
         THEN [st EXCEPT !.inQuotes = FALSE,
                         !.args = Append(@, Argument(st.currentArg, TRUE)),
                         !.currentArg = <<>>]
         ELSE IF currentChar = space
         THEN flushed(st, TRUE)
         ELSE [st EXCEPT !.currentArg = Append(@, currentChar)]
    ELSE IF currentChar = backslash
         THEN [st EXCEPT !.escaped = TRUE]
         ELSE IF currentChar = quote
         THEN [flushed(st, FALSE) EXCEPT !.inQuotes = TRUE]
         ELSE IF currentChar = space
         THEN flushed(st, FALSE)
         ELSE [st EXCEPT !.currentArg = Append(@, currentChar)]

\* one pass of the loop over the characters
loopBody(st, currentChar) ==
    IF st.escaped
    THEN [st EXCEPT !.escaped = FALSE, !.currentArg = Append(@, currentChar)]
    ELSE IF st.inQuotes
    THEN IF currentChar = backslash
         THEN [st EXCEPT !.escaped = TRUE]
         ELSE IF currentChar = quote
         THEN [st EXCEPT !.inQuotes = FALSE,
                         !.args = Append(@, Argument(st.currentArg, TRUE)),
                         !.currentArg = <<>>]
         ELSE [st EXCEPT !.currentArg = Append(@, currentChar)]
    ELSE IF currentChar = backslash
         THEN [st EXCEPT !.escaped = TRUE]
         ELSE IF currentChar = quote
         THEN [flushed(st, FALSE) EXCEPT !.inQuotes = TRUE]
         ELSE IF currentChar = space
         THEN flushed(st, FALSE)
         ELSE [st EXCEPT !.currentArg = Append(@, currentChar)]

RECURSIVE splitLoop(_, _)
\* the locals before the loop and after each of the first currentPos passes
splitLoop(argsStr, currentPos) ==
    IF currentPos = 0 THEN <<beforeLoop>>
    ELSE LET passes == splitLoop(argsStr, currentPos - 1)
         IN  Append(passes, loopBody(Last(passes), argsStr[currentPos]))

splitCommandLineArguments(argsStr) ==
    LET st == Last(splitLoop(argsStr, Len(argsStr)))
    IN  IF st.currentArg # <<>>
        THEN Append(st.args,
                    Argument(st.currentArg, st.inQuotes /\ argsStr[Len(argsStr)] # quote))
        ELSE st.args

\* the loop locals after every pass are kept in trace
SplitCommandLineArguments ==
    /\ lastOp = "idle"
    /\ \E argsStr \in Tuples(Characters, MaxArgsLen) :
        /\ lastOp' = "splitCommandLineArguments"
        /\ args' = [NoArgs EXCEPT !.argsStr = argsStr]
        /\ pre' = View
        /\ trace' = splitLoop(argsStr, Len(argsStr))
        /\ ret' = splitCommandLineArguments(argsStr)
        /\ msgs' = <<>>
        /\ UNCHANGED <<model, selectedRows, currentIndex, rest>>


\* ---------------------------------------------------------------------------
\* MiscUtils.cpp: PathChecker
\*
\* A path is given by what the file system holds for it: "empty" is the empty
\* string, "missing" a path that does not exist, "other" an entry that is
\* neither a file nor a directory.

Paths == {"empty", "missing", "file", "dir", "other"}

EntryTypes == {"File", "Dir", "Both"}

CheckFunctions == {"_checkPath", "_checkNonEmptyPath", "_checkCollision"}

exists(path) == path \in {"file", "dir", "other"}

\* what a check leaves: its return value, the flag, and the warnings it showed
Checked(result, flag, warnings) ==
    [ret |-> result, errorMessageDisplayed |-> flag, msgs |-> warnings]

_maybeShowError_always(flag, title) ==
    [errorMessageDisplayed |-> TRUE, msgs |-> <<title>>]

_maybeShowError(flag, title) ==
    IF ~flag
    THEN [errorMessageDisplayed |-> TRUE, msgs |-> <<title>>]
    ELSE [errorMessageDisplayed |-> flag, msgs |-> <<>>]

\* return false after _maybeShowError
failed(flag, title) ==
    LET shown == _maybeShowError(flag, title)
    IN  Checked(FALSE, shown.errorMessageDisplayed, shown.msgs)

_checkCollision(path, expectedType, flag) ==
    IF expectedType = "File" /\ path # "file"
    THEN failed(flag, "Path is a directory")
    ELSE IF expectedType = "Dir" /\ path # "dir"
    THEN failed(flag, "Path is a file")
    ELSE Checked(TRUE, flag, <<>>)

_checkNonEmptyPath(path, expectedType, flag) ==
    IF ~exists(path)
    THEN failed(flag, CASE expectedType = "File" -> "File no longer exists"
                        [] expectedType = "Dir" -> "Directory no longer exists"
                        [] expectedType = "Both" -> "File or directory no longer exists")
    ELSE _checkCollision(path, expectedType, flag)

_checkPath(path, expectedType, flag) ==
    IF path = "empty"
    THEN failed(flag, "Path is empty")
    ELSE _checkNonEmptyPath(path, expectedType, flag)

\* the check a method of the PathChecker forwards to
check(c, flag) ==
    CASE c.function = "_checkPath" -> _checkPath(c.path, c.expectedType, flag)
      [] c.function = "_checkNonEmptyPath" -> _checkNonEmptyPath(c.path, c.expectedType, flag)
      [] c.function = "_checkCollision" -> _checkCollision(c.path, c.expectedType, flag)

\* one more check of the PathChecker of the running slot: args.checks lists the
\* checks made, ret their return values, trace the flag after each of them,
\* msgs the warnings shown
CheckPath ==
    /\ lastOp \in {"idle", "PathChecker"}
    /\ Len(args.checks) < MaxChecks
    /\ \E function \in CheckFunctions, path \in Paths, expectedType \in EntryTypes :
        LET c == [function |-> function, path |-> path, expectedType |-> expectedType]
            out == check(c, errorMessageDisplayed)
        IN  /\ lastOp' = "PathChecker"
            /\ args' = [args EXCEPT !.checks = Append(@, c)]
            /\ pre' = IF lastOp = "idle" THEN View ELSE pre
            /\ ret' = (IF lastOp = "idle" THEN <<>> ELSE ret) \o <<out.ret>>
            /\ trace' = trace \o <<out.errorMessageDisplayed>>
            /\ msgs' = msgs \o out.msgs
            /\ errorMessageDisplayed' = out.errorMessageDisplayed
            /\ UNCHANGED <<model, selectedRows, currentIndex, statics>>


Next ==
    \/ SelectItemByIndex
    \/ DeselectItemByIndex
    \/ SetCurrentItemByIndex
    \/ UnsetCurrentItem
    \/ ChooseItemByIndex
    \/ AppendItem
    \/ PrependItem
    \/ InsertItem
    \/ DeleteSelectedItem
    \/ DeleteSelectedItems
    \/ CloneSelectedItem
    \/ MoveUpSelectedItem
    \/ MoveDownSelectedItem
    \/ MoveUpSelectedItems
    \/ MoveDownSelectedItems
    \/ UpdateListFromDir
    \/ UpdateListFromDirAgain
    \/ MoveUpThenDownSelectedItem
    \/ InsertThenDeleteSelectedItem
    \/ DeleteSelectedItemAgain
    \/ SetCurrentItemByID
    \/ SelectItemByID
    \/ SelectItemsByIDs
    \/ SetCurrentItemByID_QComboBox
    \/ SetCurrentIndex
    \/ UpdateComboBoxFromDir
    \/ AreSelectionsEqual
    \/ GetRunCommand
    \/ GetRunCommandAgain
    \/ SplitCommandLineArguments
    \/ CheckPath
    \/ ReturnToEventLoop

\* the whole program
Spec == Init /\ [][Next]_vars

\* the lists that are filled from a directory (IWADs, map packs): their items
\* are added, removed, moved and reloaded, the display names are never edited
NextDir ==
    \/ SelectItemByIndex
    \/ DeselectItemByIndex
    \/ SetCurrentItemByIndex
    \/ UnsetCurrentItem
    \/ ChooseItemByIndex
    \/ AppendItem
    \/ PrependItem
    \/ InsertItem
    \/ DeleteSelectedItem
    \/ DeleteSelectedItems
    \/ MoveUpSelectedItem
    \/ MoveDownSelectedItem
    \/ MoveUpSelectedItems
    \/ MoveDownSelectedItems
    \/ UpdateListFromDir
    \/ UpdateListFromDirAgain
    \/ SetCurrentItemByID
    \/ SelectItemByID
    \/ SelectItemsByIDs
    \/ SetCurrentItemByID_QComboBox
    \/ ReturnToEventLoop

SpecDir == Init /\ [][NextDir]_vars

\* the lists that are edited by the user (presets, mods): every button action,
\* no update from a directory
NextEdit ==
    \/ SelectItemByIndex
    \/ DeselectItemByIndex
    \/ SetCurrentItemByIndex
    \/ UnsetCurrentItem
    \/ ChooseItemByIndex
    \/ AppendItem
    \/ PrependItem
    \/ InsertItem
    \/ DeleteSelectedItem
    \/ DeleteSelectedItems
    \/ CloneSelectedItem
    \/ MoveUpSelectedItem
    \/ MoveDownSelectedItem
    \/ MoveUpSelectedItems
    \/ MoveDownSelectedItems
    \/ InsertThenDeleteSelectedItem
    \/ DeleteSelectedItemAgain
    \/ ReturnToEventLoop

SpecEdit == Init /\ [][NextEdit]_vars

\* every operation that changes the positions of items: the button actions and
\* the update from a directory, on the rows the user has selected
NextList ==
    \/ SelectItemByIndex
    \/ AppendItem
    \/ PrependItem
    \/ InsertItem
    \/ DeleteSelectedItem
    \/ DeleteSelectedItems
    \/ CloneSelectedItem
    \/ MoveUpSelectedItem
    \/ MoveDownSelectedItem
    \/ MoveUpSelectedItems
    \/ MoveDownSelectedItems
    \/ UpdateListFromDir
    \/ ReturnToEventLoop

SpecList == Init /\ [][NextList]_vars

\* a combo box that is filled from a directory (the config files of the
\* selected engine)
NextCombo ==
    \/ SetCurrentIndex
    \/ UpdateComboBoxFromDir
    \/ ReturnToEventLoop

SpecCombo == Init /\ [][NextCombo]_vars

\* the comparison of selections, a function of its two arguments alone
NextSelections ==
    \/ AreSelectionsEqual
    \/ ReturnToEventLoop

SpecSelections == Init /\ [][NextSelections]_vars

\* the command builder alone
NextRun ==
    \/ GetRunCommand
    \/ GetRunCommandAgain
    \/ ReturnToEventLoop

SpecRun == Init /\ [][NextRun]_vars

\* the tokenizer of the additional arguments alone
NextSplit ==
    \/ SplitCommandLineArguments
    \/ ReturnToEventLoop

SpecSplit == Init /\ [][NextSplit]_vars

\* the checks of one PathChecker after another
NextCheck ==
    \/ CheckPath
    \/ ReturnToEventLoop

SpecCheck == Init /\ [][NextCheck]_vars

\* the names of the items of a list whose items are told apart
ItemNames == <<"A", "B", "C", "D", "E", "F">>

\* a list of up to MoveLen different items with any rows selected and any row
\* (or none) current, as the user leaves it before pressing a move button
InitMove ==
    /\ \E n \in 0..MoveLen : model = [k \in 1..n |-> Item(ItemNames[k])]
    /\ selectedRows \in SUBSET (0..(Len(model) - 1))
    /\ currentIndex \in -1..(Len(model) - 1)
    /\ statics = NoStatics
    /\ errorMessageDisplayed = FALSE
    /\ Idle

\* the move buttons
NextMove ==
    \/ MoveUpSelectedItem
    \/ MoveDownSelectedItem
    \/ MoveUpSelectedItems
    \/ MoveDownSelectedItems
    \/ MoveUpThenDownSelectedItem
    \/ ReturnToEventLoop

SpecMove == InitMove /\ [][NextMove]_vars

\* ---------------------------------------------------------------------------
\*  what the claims speak about

Reloaded == lastOp = "updateListFromDir"

\* the identities of the items of a list
IDs(m) == {m[k].id : k \in 1..Len(m)}

\* the identities of the selected items of a view
SelectedIDs(v) == {at(v.model, r).id : r \in v.sel}

\* the scanned files that satisfy the predicate, in scan order
DesiredFiles(scan, isDesiredFile) == SelectSeq(scan, LAMBDA f : f \in isDesiredFile)

\* every selected row and the current row of a view exist in its list
NoStaleIndex(v) ==
    /\ \A r \in v.sel : r >= 0 /\ r < Len(v.model)
    /\ v.cur = -1 \/ (v.cur >= 0 /\ v.cur < Len(v.model))

\* a list without the items at the given rows, the others in their order
WithoutRows(m, rows) ==
    LET kept == SelectSeq([k \in 1..Len(m) |-> k - 1], LAMBDA r : r \notin rows)
    IN  [k \in 1..Len(kept) |-> m[kept[k] + 1]]

Min(S) == CHOOSE x \in S : \A y \in S : x <= y

\* C1: after updateListFromDir the list holds exactly one item per scanned file
\* that satisfies the predicate, in scan order, whatever it held before.
C1_ReloadReplacesList ==
    Reloaded =>
        LET files == DesiredFiles(args.scan, args.isDesiredFile)
        IN  model = [k \in 1..Len(files) |-> Item(files[k])]

\* a reload that rejected a scanned file whose item was in the old list, and
\* that kept another one
C1_Witness ==
    /\ Reloaded
    /\ model # <<>>
    /\ \E f \in Range(args.scan) : f \notin args.isDesiredFile /\ f \in IDs(pre.model)

\* C2: updateListFromDir restores the selection by identity: an item is
\* selected afterwards iff its identity was selected before, and the current
\* item is the item whose identity was current before, wherever it now sits.
C2_ReloadRestoresByIdentity ==
    Reloaded =>
        /\ selectedRows = {r \in 0..(Len(model) - 1) : at(model, r).id \in SelectedIDs(pre)}
        /\ currentIndex >= 0 =>
              /\ pre.cur >= 0
              /\ at(model, currentIndex).id = at(pre.model, pre.cur).id
        /\ (pre.cur >= 0 /\ at(pre.model, pre.cur).id \in IDs(model)) => currentIndex >= 0

\* a reload after which a selected identity and the current identity sit at
\* other rows than before, while the row they had holds another identity
C2_Witness ==
    /\ Reloaded
    /\ pre.cur >= 0 /\ currentIndex >= 0 /\ currentIndex # pre.cur
    /\ pre.cur < Len(model) /\ at(model, pre.cur).id # at(pre.model, pre.cur).id
    /\ \E r \in pre.sel : r < Len(model) /\ r \notin selectedRows
    /\ selectedRows # {}

\* C3: if the identity that was current before the reload is not in the
\* reloaded list, no item is current afterwards.
C3_ReloadNoFallback ==
    (Reloaded /\ (pre.cur = -1 \/ at(pre.model, pre.cur).id \notin IDs(model)))
        => currentIndex = -1

\* a reload of a list whose current item is gone from the directory, into a
\* list that is not empty
C3_Witness ==
    /\ Reloaded
    /\ pre.cur >= 0
    /\ at(pre.model, pre.cur).id \notin IDs(model)
    /\ model # <<>>
    /\ currentIndex = -1

\* C4: updateListFromDir is idempotent: a second reload over the same
\* directory content leaves the list, the selected rows and the current row
\* as the first reload left them.
C4_ReloadIdempotent ==
    (Reloaded /\ args.unchangedDir) =>
        /\ model = pre.model
        /\ selectedRows = pre.sel
        /\ currentIndex = pre.cur

\* a second reload of a list that is not empty and has selected and current
\* items
C4_Witness ==
    /\ Reloaded
    /\ args.unchangedDir
    /\ Len(model) >= 2
    /\ selectedRows # {}
    /\ currentIndex >= 0

\* C5: at every step of updateListFromDir every selected row and the current
\* row exist in the list, and whenever the list changes nothing is selected
\* and no item is current (selection and current item are cleared before the
\* list is cleared and restored after it is filled).
C5_ReloadNeverStale ==
    Reloaded =>
        /\ \A k \in 1..Len(trace) : NoStaleIndex(trace[k])
        /\ \A k \in 1..(Len(trace) - 1) :
              trace[k].model # trace[k + 1].model =>
                  /\ trace[k].sel = {} /\ trace[k].cur = -1
                  /\ trace[k + 1].sel = {} /\ trace[k + 1].cur = -1

\* a reload into a shorter list, called while the last row was selected and
\* current, so that the old rows do not exist in the new list
C5_Witness ==
    /\ Reloaded
    /\ pre.cur >= Len(model)
    /\ \E r \in pre.sel : r >= Len(model)
    /\ model # <<>>
    /\ selectedRows # {}

\* the button actions that need one selected item and return its row, and
\* those that work on all selected items and return their rows
SingleItemOps == {"deleteSelectedItem", "cloneSelectedItem", "moveUpSelectedItem",
                  "moveDownSelectedItem"}

MultiItemOps == {"deleteSelectedItems", "moveUpSelectedItems", "moveDownSelectedItems"}

\* the view is as it was when the function was called
ViewUnchanged == model = pre.model /\ selectedRows = pre.sel /\ currentIndex = pre.cur

\* C6: deleteSelectedItem with row i selected removes exactly the item at i;
\* afterwards the item now at row i is selected and current if there is one,
\* otherwise the new last item, and nothing if the list became empty.
C6_DeleteSelectedItem ==
    (lastOp = "deleteSelectedItem" /\ Cardinality(pre.sel) = 1) =>
        LET i == CHOOSE r \in pre.sel : TRUE IN
        /\ ret = i
        /\ model = WithoutRows(pre.model, {i})
        /\ IF model = <<>> THEN selectedRows = {} /\ currentIndex = -1
           ELSE IF i < Len(model) THEN selectedRows = {i} /\ currentIndex = i
           ELSE selectedRows = {Len(model) - 1} /\ currentIndex = Len(model) - 1

\* the last item of a longer list was deleted while another item was current
C6_Witness ==
    /\ lastOp = "deleteSelectedItem"
    /\ pre.sel = {Len(pre.model) - 1}
    /\ pre.cur = 0
    /\ Len(model) >= 2
    /\ currentIndex = Len(model) - 1

\* C7: a button action that needs a selection, called with nothing selected,
\* returns its failure value (-1 or no rows) and leaves the list, the
\* selection and the current item as they were.
C7_NothingSelectedNoChange ==
    (lastOp \in SingleItemOps \cup MultiItemOps /\ pre.sel = {}) =>
        /\ ViewUnchanged
        /\ lastOp \in SingleItemOps => ret = -1
        /\ lastOp \in MultiItemOps => ret = <<>>

\* moveUpSelectedItems was called on a list with a current item and nothing
\* selected
C7_Witness ==
    /\ lastOp = "moveUpSelectedItems"
    /\ pre.sel = {}
    /\ pre.cur >= 1
    /\ Len(pre.model) >= 2

C9_DeleteSelectedItems ==
    (lastOp = "deleteSelectedItems" /\ pre.sel # {}) =>
        /\ Range(args.selectedIndexes) = pre.sel
        /\ model = WithoutRows(pre.model, pre.sel)
        /\ Len(ret) = Cardinality(pre.sel)
        /\ Range(ret) = pre.sel
        /\ \A k \in 1..(Len(ret) - 1) : ret[k] < ret[k + 1]

\* rows that are not neighbours were deleted after being selected in
\* descending order, and an item between them stays
C9_Witness ==
    /\ lastOp = "deleteSelectedItems"
    /\ Len(args.selectedIndexes) = 2
    /\ args.selectedIndexes[1] > args.selectedIndexes[2] + 1
    /\ model # <<>>

\* the list [A,B,C,D,E] of the example
ExampleList == [k \in 1..5 |-> Item(ItemNames[k])]

\* C10: after deleteSelectedItems, with f the smallest deleted row: the item
\* at row f is selected and current if f is still a row, otherwise the new
\* last item is (which then is row f-1), and nothing if the list is empty;
\* deleting rows {1,3} of [A,B,C,D,E] leaves [A,C,E] with row 1 (C) selected.
C10_SelectionAfterDeleteSelectedItems ==
    (lastOp = "deleteSelectedItems" /\ pre.sel # {}) =>
        /\ LET f == Min(pre.sel) IN
           IF model = <<>> THEN selectedRows = {} /\ currentIndex = -1
           ELSE IF f < Len(model) THEN selectedRows = {f} /\ currentIndex = f
           ELSE /\ f - 1 = Len(model) - 1
                /\ selectedRows = {Len(model) - 1}
                /\ currentIndex = Len(model) - 1
        /\ \A selectedIndexes \in {<<1, 3>>, <<3, 1>>} :
              Last(deleteSelectedItems([model |-> ExampleList, sel |-> {1, 3}, cur |-> 3],
                                       selectedIndexes).trace)
                  = [model |-> <<Item("A"), Item("C"), Item("E")>>, sel |-> {1}, cur |-> 1]

\* the last rows of a longer list were deleted, so that the first deleted row
\* does not exist any more
C10_Witness ==
    /\ lastOp = "deleteSelectedItems"
    /\ Cardinality(pre.sel) >= 2
    /\ model # <<>>
    /\ Min(pre.sel) = Len(model)
    /\ currentIndex = Len(model) - 1

\* a move-up call that found an item to move and none of them at the top
MovedUp ==
    /\ 0 \notin pre.sel
    /\ \/ lastOp = "moveUpSelectedItem" /\ Cardinality(pre.sel) = 1
       \/ lastOp = "moveUpSelectedItems" /\ pre.sel # {}

\* a move-down call that found an item to move and none of them at the bottom
MovedDown ==
    /\ Len(pre.model) - 1 \notin pre.sel
    /\ \/ lastOp = "moveDownSelectedItem" /\ Cardinality(pre.sel) = 1
       \/ lastOp = "moveDownSelectedItems" /\ pre.sel # {}

\* C11: a move up with a selected item at row 0, and a move down with a
\* selected item at the last row, leaves the list, the selection and the
\* current item as they were; no selected item moves, also not those away from
\* the boundary.
C11_MoveAtBoundaryIsNoOp ==
    /\ (lastOp \in {"moveUpSelectedItem", "moveUpSelectedItems"} /\ 0 \in pre.sel)
          => ViewUnchanged
    /\ (lastOp \in {"moveDownSelectedItem", "moveDownSelectedItems"}
          /\ Len(pre.model) - 1 \in pre.sel)
          => ViewUnchanged

\* moveUpSelectedItems was called with the first item and an item further down
\* selected, which had room to move, and with a current item that is not the
\* first
C11_Witness ==
    /\ lastOp = "moveUpSelectedItems"
    /\ 0 \in pre.sel
    /\ \E r \in pre.sel : r >= 2 /\ r - 1 \notin pre.sel
    /\ pre.cur >= 1
    /\ ret = <<>>

\* C12: moveUpSelectedItems / moveDownSelectedItems away from the boundary, for
\* every set of selected rows and every click order: every selected item ends
\* one row further in the direction of the move, exactly these rows are
\* selected afterwards, the items that were not selected keep their order, no
\* item is lost or duplicated, and the selected identities are the same.
C12_MoveSelectedItems ==
    (lastOp \in {"moveUpSelectedItems", "moveDownSelectedItems"} /\ (MovedUp \/ MovedDown)) =>
        LET step == IF lastOp = "moveUpSelectedItems" THEN -1 ELSE 1 IN
        /\ Range(args.selectedIndexes) = pre.sel
        /\ Len(model) = Len(pre.model)
        /\ \A r \in pre.sel : at(model, r + step) = at(pre.model, r)
        /\ selectedRows = {r + step : r \in pre.sel}
        /\ WithoutRows(model, selectedRows) = WithoutRows(pre.model, pre.sel)
        /\ \A item \in Range(pre.model) :
              Cardinality({r \in 0..(Len(model) - 1) : at(model, r) = item})
                  = Cardinality({r \in 0..(Len(model) - 1) : at(pre.model, r) = item})
        /\ SelectedIDs(View) = SelectedIDs(pre)

\* two items that are not neighbours were moved down, clicked in ascending
\* order, with an item that is not selected between them
C12_Witness ==
    /\ lastOp = "moveDownSelectedItems"
    /\ Len(args.selectedIndexes) = 2
    /\ args.selectedIndexes[1] + 2 = args.selectedIndexes[2]
    /\ ret # <<>>
    /\ model # pre.model

\* C13: after a move that is not a no-op the current row follows from the row
\* c that was current before: after a move up it is c-1, or 0 if c was the
\* first row; after a move down it is c+1, or the last row if c was the last
\* row; for the single-item and the multi-item functions, whether or not the
\* current item is selected.
C13_CurrentAfterMove ==
    /\ (MovedUp /\ pre.cur >= 0) =>
          currentIndex = IF pre.cur # 0 THEN pre.cur - 1 ELSE 0
    /\ (MovedDown /\ pre.cur >= 0) =>
          currentIndex = IF pre.cur # Len(pre.model) - 1 THEN pre.cur + 1
                         ELSE Len(pre.model) - 1

\* an item was moved down while the last item, which was not selected, was
\* current
C13_Witness ==
    /\ lastOp = "moveDownSelectedItem"
    /\ MovedDown
    /\ pre.cur = Len(pre.model) - 1
    /\ currentIndex = pre.cur
    /\ model # pre.model

\* C14 as stated: for every list that is not empty, every selected item and
\* every current item, moveUpSelectedItem followed by moveDownSelectedItem
\* restores the order of the list and leaves the identity that was current
\* before current.
C14_MoveUpThenDownRestores ==
    (lastOp = "moveUpThenDownSelectedItem" /\ pre.model # <<>> /\ pre.cur >= 0) =>
        /\ model = pre.model
        /\ currentIndex >= 0
        /\ at(model, currentIndex).id = at(pre.model, pre.cur).id

\* C14 as amended: moveUpSelectedItem followed by moveDownSelectedItem
\* restores the list, the selection and the current row when neither the
\* selected item nor the current item is the first one. If the selected item
\* is the first of several, the first call does nothing and the second moves
\* it to row 1; if the current item is the first one and the selected item is
\* not, the list is restored and row 1 is current.
C14_MoveUpThenDown ==
    lastOp = "moveUpThenDownSelectedItem" =>
        LET i == CHOOSE r \in pre.sel : TRUE IN
        /\ (i >= 1 /\ pre.cur >= 1) => ViewUnchanged
        /\ (i = 0 /\ Len(pre.model) >= 2) =>
              /\ model # pre.model
              /\ at(model, 1) = at(pre.model, 0)
              /\ at(model, 0) = at(pre.model, 1)
        /\ (i >= 1 /\ pre.cur <= 0) =>
              /\ model = pre.model
              /\ currentIndex = 1

\* an item in the middle was moved up and down again while another item, not
\* the first, was current
C14_Witness ==
    /\ lastOp = "moveUpThenDownSelectedItem"
    /\ \E r \in pre.sel : r >= 1 /\ r # pre.cur
    /\ pre.cur >= 1
    /\ \E k \in 1..Len(trace) : trace[k].model # pre.model
    /\ ViewUnchanged

\* C15: insertItem at a valid index followed by deleteSelectedItem gives back
\* the list as it was before the insertion: the delete removes the item just
\* inserted, which the insertion left as the only selected item; only the
\* selection and the current item may differ.
C15_InsertThenDelete ==
    lastOp = "insertItemThenDeleteSelectedItem" =>
        /\ model = pre.model
        /\ ret = args.index
        /\ msgs = <<>>
        /\ \E k \in 1..Len(trace) :
              /\ trace[k].model = insert(pre.model, args.index, args.item)
              /\ trace[k].sel = {args.index}

\* an item was inserted into the middle of a list in which other items were
\* selected, and deleted again
C15_Witness ==
    /\ lastOp = "insertItemThenDeleteSelectedItem"
    /\ args.index > 0
    /\ args.index < Len(pre.model)
    /\ Cardinality(pre.sel) >= 2
    /\ pre.cur >= 0
    /\ model = pre.model

\* C16: cloneSelectedItem with row i selected appends one item to the list,
\* a copy of the item at i whose display name is the original name followed
\* by " - clone"; the items that were in the list stay as and where they were;
\* the new last item is the only selected item and the current item.
C16_CloneSelectedItem ==
    (lastOp = "cloneSelectedItem" /\ Cardinality(pre.sel) = 1) =>
        LET i == CHOOSE r \in pre.sel : TRUE
            copy == Last(model)
            orig == at(pre.model, i)
        IN  /\ ret = i
            /\ Len(model) = Len(pre.model) + 1
            /\ SubSeq(model, 1, Len(pre.model)) = pre.model
            /\ copy.name = orig.name \o <<" - clone">>
            /\ [copy EXCEPT !.name = orig.name] = orig
            /\ selectedRows = {Len(model) - 1}
            /\ currentIndex = Len(model) - 1

\* an item that is not the last one was cloned while another item was current
C16_Witness ==
    /\ lastOp = "cloneSelectedItem"
    /\ Cardinality(pre.sel) = 1
    /\ Len(pre.model) - 1 \notin pre.sel
    /\ pre.cur >= 0
    /\ pre.cur \notin pre.sel
    /\ Len(model) = Len(pre.model) + 1

\* the identity is one that setCurrentItemByID / selectItemByID can restore in
\* the list m
Restorable(m, itemID) == itemID # EmptyID /\ itemID \in IDs(m)

\* C17: setCurrentItemByID and selectItemByID (list view and combo box) return
\* false and change neither the selection nor the current item when the
\* identity is empty or not in the list, and return true only when they made
\* the item of this identity current / selected; selectItemsByIDs selects the
\* items of exactly those identities that are in the list and skips the others
\* without a message.
C17_RestoreByAbsentIdentity ==
    /\ lastOp \in {"setCurrentItemByID", "selectItemByID"} =>
          /\ ret = Restorable(pre.model, args.itemID)
          /\ model = pre.model
          /\ msgs = <<>>
          /\ ~ret => ViewUnchanged
          /\ (ret /\ lastOp = "setCurrentItemByID") =>
                /\ at(model, currentIndex).id = args.itemID
                /\ selectedRows = pre.sel
          /\ (ret /\ lastOp = "selectItemByID") =>
                /\ \E r \in 0..(Len(model) - 1) :
                      /\ at(model, r).id = args.itemID
                      /\ selectedRows = pre.sel \cup {r}
                /\ currentIndex = pre.cur
    /\ lastOp = "setCurrentItemByID_QComboBox" =>
          /\ ret.ok = Restorable(args.comboBox.model, args.itemID)
          /\ ret.view.model = args.comboBox.model
          /\ ~ret.ok => ret.view = args.comboBox
          /\ ret.ok => at(ret.view.model, ret.view.cur).id = args.itemID
    /\ lastOp = "selectItemsByIDs" =>
          /\ model = pre.model
          /\ currentIndex = pre.cur
          /\ msgs = <<>>
          /\ pre.sel \subseteq selectedRows
          /\ SelectedIDs(View) = SelectedIDs(pre) \cup (Range(args.itemIDs) \cap IDs(model))
          /\ \A id \in Range(args.itemIDs) \cap IDs(model) :
                \E r \in selectedRows : at(model, r).id = id
          /\ Cardinality(selectedRows \ pre.sel)
                <= Cardinality(Range(args.itemIDs) \cap IDs(model))

\* selectItemsByIDs was given an identity that is in the list and one that is
\* not, and selected the one
C17_Witness ==
    /\ lastOp = "selectItemsByIDs"
    /\ \E id \in Range(args.itemIDs) : id # EmptyID /\ id \notin IDs(model)
    /\ \E id \in Range(args.itemIDs) : id \in IDs(model)
    /\ pre.sel = {}
    /\ Cardinality(selectedRows) = 1
    /\ Len(model) >= 2

\* how often an identity occurs in a selection
Occurrences(selection, id) == Cardinality({k \in 1..Len(selection) : selection[k] = id})

\* one selection is a permutation of the other
IsPermutation(selection1, selection2) ==
    \A id \in Range(selection1) \cup Range(selection2) :
        Occurrences(selection1, id) = Occurrences(selection2, id)

\* C18: areSelectionsEqual returns true exactly when the second selection is
\* a permutation of the first (the same identities, each as often); it is
\* therefore reflexive, symmetric and gives the same result for every
\* reordering of either argument.
C18_AreSelectionsEqual ==
    lastOp = "areSelectionsEqual" =>
        /\ ret = IsPermutation(args.selection1, args.selection2)
        /\ areSelectionsEqual(args.selection2, args.selection1) = ret
        /\ areSelectionsEqual(args.selection1, args.selection1)
        /\ \A reordered \in Selections :
              /\ IsPermutation(reordered, args.selection1) =>
                    areSelectionsEqual(reordered, args.selection2) = ret
              /\ IsPermutation(reordered, args.selection2) =>
                    areSelectionsEqual(args.selection1, reordered) = ret
        /\ ViewUnchanged

\* two selections that hold the same identities in another order, one of
\* them twice, were found equal
C18_Witness ==
    /\ lastOp = "areSelectionsEqual"
    /\ ret = TRUE
    /\ args.selection1 # args.selection2
    /\ Len(args.selection1) > Cardinality(Range(args.selection1))
    /\ Cardinality(Range(args.selection1)) >= 2

\* no two items of the list have the same identity
UniqueIDs(m) == \A k1, k2 \in 1..Len(m) : m[k1].id = m[k2].id => k1 = k2

\* C19: at every instant, inside and after every appendItem, prependItem,
\* insertItem, cloneSelectedItem, delete and move, no two items of the list
\* have the same identity.
C19_IdentityUnique ==
    /\ UniqueIDs(model)
    /\ \A k \in 1..Len(trace) : UniqueIDs(trace[k].model)

\* the executable path is below the directory of an application installed by Flatpak
IsFlatpakExecutable(path) ==
    /\ Len(path) >= 11
    /\ <<path[1], path[2], path[3], path[4], path[5], path[6], path[7], path[8], path[9]>>
         = <<"/", "var", "/", "lib", "/", "flatpak", "/", "app", "/">>
    /\ path[10] # "/"
    /\ path[11] = "/"

\* the directory as an absolute path
AbsoluteDir(dir) == IF dir[1] = "/" THEN dir ELSE <<"/", "home", "/">> \o dir

\* the token without the quotes around it
Unquoted(token) ==
    IF Len(token) >= 2 /\ token[1] = "\"" /\ token[Len(token)] = "\""
    THEN SubSeq(token, 2, Len(token) - 1)
    ELSE token

\* the tokens a Flatpak build of the launcher puts first to leave its own sandbox
HostEscape(env) ==
    IF env.FLATPAK_BUILD THEN << <<"flatpak-spawn">>, <<"--host">> >> ELSE <<>>

IsSnapExecutable(path) ==
    /\ Len(path) >= 3
    /\ <<path[1], path[2], path[3]>> = <<"/", "snap", "/">>

\* the part of the path after its last "/"
FileName(path) ==
    LET separators == {k \in 1..Len(path) : path[k] = "/"}
        start == IF separators = {} THEN 1
                 ELSE (CHOOSE k \in separators : \A j \in separators : j <= k) + 1
    IN  [k \in 1..(Len(path) + 1 - start) |-> path[start + k - 1]]

IsPlainExecutable(path) == ~IsSnapExecutable(path) /\ ~IsFlatpakExecutable(path)

\* a Flatpak build of the launcher finds the executable in its own directory /app/bin
InLauncherDir(a) ==
    /\ a.env.FLATPAK_BUILD
    /\ Len(a.executablePath) = 6
    /\ SubSeq(a.executablePath, 1, 5) = <<"/", "app", "/", "bin", "/">>

\* the search path resolves the file name of the executable to the executable path itself
ResolvedBySearchPath(a) ==
    /\ a.env.searchPath = a.executablePath
    /\ a.executablePath # <<>>

\* the one token that refers to a plain executable: the bare file name, or the
\* rebased path with "./" in front where it has no "/" (not on Windows), in
\* quotes exactly when it contains a space
IsExecutableReference(token, a) ==
    IF ResolvedBySearchPath(a)
    THEN token = FileName(a.executablePath)
    ELSE LET rebased == rebasePath(a.base, a.executablePath)
             withDot == IF ~a.env.isWindows /\ "/" \notin Range(rebased)
                        THEN <<".", "/">> \o rebased
                        ELSE rebased
         IN  /\ (rebased[1] = "/") <=> a.base.useAbsolutePaths
             /\ Unquoted(token) = withDot
             /\ (token # withDot) <=> (\E k \in 1..Len(withDot) : withDot[k] = "my mods")

\* C22 as stated: for every executable that is neither Snap nor Flatpak the
\* command is, after the host-escape tokens of a Flatpak build, the single
\* token that refers to the executable: the bare file name if the search path
\* resolves it, otherwise the rebased path with "./" and quotes where needed.
C22_PlainRunCommandAlways ==
    (lastOp = "getRunCommand" /\ IsPlainExecutable(args.executablePath)) =>
        LET tokens == <<ret.executable>> \o ret.arguments
        IN  /\ Len(tokens) = Len(HostEscape(args.env)) + 1
            /\ IsExecutableReference(tokens[Len(tokens)], args)

\* C22 (amended): the same, except that a Flatpak build of the launcher whose
\* own directory holds the executable returns the bare file name and no
\* argument, whether or not the search path resolves the executable.
C22_PlainRunCommand ==
    (lastOp = "getRunCommand" /\ IsPlainExecutable(args.executablePath)) =>
        LET tokens == <<ret.executable>> \o ret.arguments
        IN  IF InLauncherDir(args)
            THEN tokens = << FileName(args.executablePath) >>
            ELSE /\ SubSeq(tokens, 1, Len(tokens) - 1) = HostEscape(args.env)
                 /\ IsExecutableReference(tokens[Len(tokens)], args)
                 /\ ~args.env.FLATPAK_BUILD => ret.arguments = <<>>

C22_Witness ==
    /\ lastOp = "getRunCommand"
    /\ args.executablePath = <<"/", "home", "/", "gzdoom">>
    /\ ~args.base.useAbsolutePaths
    /\ ~args.env.isWindows
    /\ ~ResolvedBySearchPath(args)
    /\ ret.executable = <<".", "/", "gzdoom">>
    /\ ret.arguments = <<>>

\* C23: in a Flatpak build of the launcher, a command for an executable outside
\* the launcher's own directory starts with "flatpak-spawn" "--host", before
\* the tokens of the sandbox prefix and before the reference to the
\* executable, and these two tokens occur nowhere else; a command for an
\* executable in the launcher's own directory has no host-escape token.
C23_HostEscapeFirst ==
    (lastOp = "getRunCommand" /\ args.env.FLATPAK_BUILD) =>
        LET tokens == <<ret.executable>> \o ret.arguments
            escapes == {k \in 1..Len(tokens) :
                           tokens[k] \in { <<"flatpak-spawn">>, <<"--host">> }}
        IN  IF InLauncherDir(args)
            THEN escapes = {}
            ELSE /\ Len(tokens) >= 3
                 /\ tokens[1] = <<"flatpak-spawn">>
                 /\ tokens[2] = <<"--host">>
                 /\ escapes = {1, 2}
                 /\ IsSnapExecutable(args.executablePath)
                      => <<tokens[3], tokens[4]>> = << <<"snap">>, <<"run">> >>
                 /\ IsFlatpakExecutable(args.executablePath)
                      => <<tokens[3], tokens[4]>> = << <<"flatpak">>, <<"run">> >>
                 /\ IsPlainExecutable(args.executablePath)
                      => Len(tokens) = 3 /\ IsExecutableReference(tokens[3], args)

C23_Witness ==
    /\ lastOp = "getRunCommand"
    /\ args.env.FLATPAK_BUILD
    /\ IsSnapExecutable(args.executablePath)
    /\ ret.executable = <<"flatpak-spawn">>
    /\ ret.arguments = << <<"--host">>, <<"snap">>, <<"run">>, <<"gzdoom">> >>

C25_NoEmptyToken ==
    lastOp = "splitCommandLineArguments" =>
        \A k \in 1..Len(ret) : ret[k].str # <<>>

\* C26: when the string ends inside a quote with a non-empty pending token,
\* the last returned argument is flagged as quoted, whatever the last
\* character of the string is.
C26_UnterminatedQuoteFlagged ==
    (/\ lastOp = "splitCommandLineArguments"
     /\ Last(trace).inQuotes
     /\ Last(trace).currentArg # <<>>) =>
        /\ ret # <<>>
        /\ Last(ret).str = Last(trace).currentArg
        /\ Last(ret).wasQuoted

\* the string has neither a quote nor a backslash
IsPlain(str) == \A k \in 1..Len(str) : str[k] \notin {quote, backslash}

\* the positions where a run of characters other than spaces starts
RunStarts(str) ==
    {k \in 1..Len(str) : str[k] # space /\ (k = 1 \/ str[k - 1] = space)}

\* sequence p is the beginning of sequence s
IsPrefix(p, s) == Len(p) <= Len(s) /\ SubSeq(s, 1, Len(p)) = p

\* C27: the quoting rules of splitCommandLineArguments, for every character of
\* every string: an unescaped space outside quotes ends the pending token; an
\* unescaped quote ends the pending token and toggles the quote mode, and the
\* token that a closing quote ends is flagged quoted; a space inside quotes
\* stays in the token; inside quotes an escaped quote or backslash is a literal
\* character of the token and does not end it. Tokens once ended are returned
\* unchanged, and a string without quotes and backslashes gives exactly its
\* runs of non-space characters, none flagged.
C27_QuotingRules ==
    lastOp = "splitCommandLineArguments" =>
        /\ \A k \in 1..Len(args.argsStr) :
            LET before == trace[k]
                after == trace[k + 1]
                c == args.argsStr[k]
                pending == IF before.currentArg # <<>>
                           THEN <<[str |-> before.currentArg, wasQuoted |-> before.inQuotes]>>
                           ELSE <<>>
            IN  /\ (~before.escaped /\ ~before.inQuotes /\ c = space) =>
                      /\ after.args = before.args \o pending
                      /\ after.currentArg = <<>>
                      /\ ~after.inQuotes
                /\ (~before.escaped /\ c = quote) =>
                      /\ after.inQuotes = ~before.inQuotes
                      /\ after.currentArg = <<>>
                      /\ IsPrefix(before.args \o pending, after.args)
                      /\ before.inQuotes =>
                            /\ Len(after.args) = Len(before.args) + 1
                            /\ Last(after.args).str = before.currentArg
                            /\ Last(after.args).wasQuoted
                /\ (~before.escaped /\ before.inQuotes /\ c = space) =>
                      /\ after.args = before.args
                      /\ after.currentArg = before.currentArg \o <<space>>
                      /\ after.inQuotes
                /\ (before.escaped /\ before.inQuotes /\ c \in {quote, backslash}) =>
                      /\ args.argsStr[k - 1] = backslash
                      /\ after.args = before.args
                      /\ after.currentArg = before.currentArg \o <<c>>
                      /\ after.inQuotes
                      /\ ~after.escaped
                /\ IsPrefix(after.args, ret)
        /\ IsPlain(args.argsStr) =>
            /\ Len(ret) = Cardinality(RunStarts(args.argsStr))
            /\ \A j \in 1..Len(ret) :
                /\ ret[j].str # <<>>
                /\ space \notin Range(ret[j].str)
                /\ ~ret[j].wasQuoted
                /\ \E k \in RunStarts(args.argsStr) :
                      SubSeq(args.argsStr, k, k + Len(ret[j].str) - 1) = ret[j].str

C27_Witness ==
    /\ lastOp = "splitCommandLineArguments"
    /\ args.argsStr = <<quote, space, backslash, quote, quote>>
    /\ ret = <<[str |-> <<space, quote>>, wasQuoted |-> TRUE]>>

\* C28: a backslash followed by a character other than a backslash or a quote
\* stays in the token together with that character.
C28_OtherEscapesVerbatim ==
    lastOp = "splitCommandLineArguments" =>
        \A k \in 1..Len(args.argsStr) :
            (trace[k].escaped /\ args.argsStr[k] \notin {quote, backslash}) =>
                trace[k + 1].currentArg
                    = trace[k].currentArg \o <<backslash, args.argsStr[k]>>

\* the warnings the check shows when it is the first of its PathChecker
WarningsAlone(c) ==
    CASE c.function = "_checkPath" -> _checkPath(c.path, c.expectedType, FALSE).msgs
      [] c.function = "_checkNonEmptyPath" -> _checkNonEmptyPath(c.path, c.expectedType, FALSE).msgs
      [] c.function = "_checkCollision" -> _checkCollision(c.path, c.expectedType, FALSE).msgs

\* the checks made so far that find a fault in their path
FailingChecks == {k \in 1..Len(args.checks) : WarningsAlone(args.checks[k]) # <<>>}

\* C29: over the checks of one PathChecker at most one warning is shown, the
\* one of the first failing check; the flag is set from the first failing
\* check on and no later check clears it; and every failing check returns
\* false, also when its warning is suppressed.
C29_OneWarningPerAction ==
    lastOp = "PathChecker" =>
        /\ Len(msgs) <= 1
        /\ msgs = IF FailingChecks = {} THEN <<>>
                  ELSE WarningsAlone(args.checks[Min(FailingChecks)])
        /\ \A k \in 1..Len(args.checks) :
            /\ trace[k] <=> (\E j \in FailingChecks : j <= k)
            /\ ret[k] <=> k \notin FailingChecks
        /\ errorMessageDisplayed = trace[Len(trace)]

C29_Witness ==
    /\ lastOp = "PathChecker"
    /\ Cardinality(FailingChecks) = 2
    /\ args.checks[1].path = "missing"
    /\ args.checks[2].path = "empty"
    /\ ret = <<FALSE, FALSE>>
    /\ msgs = <<"File no longer exists">>
    /\ errorMessageDisplayed

\* the operations that change the positions of items
ListOperations ==
    {"appendItem", "prependItem", "insertItem", "deleteSelectedItem",
     "deleteSelectedItems", "cloneSelectedItem", "moveUpSelectedItem",
     "moveDownSelectedItem", "moveUpSelectedItems", "moveDownSelectedItems",
     "updateListFromDir"}

\* the steps of the call, numbered by the view they start from, that change the list
ListChanges == {k \in 1..(Len(trace) - 1) : trace[k].model # trace[k + 1].model}

\* C30: in every operation that changes the positions of items no item is
\* current from before the first change of the list until after the last one:
\* the current item is unset in the view that the first change starts from, in
\* every view up to the one that the last change leaves, and a view in which
\* a current item is set again is followed by no further change.
C30_NoChangeWhileCurrentSet ==
    (lastOp \in ListOperations /\ ListChanges # {}) =>
        LET first == Min(ListChanges)
            last == CHOOSE k \in ListChanges : \A j \in ListChanges : j <= k
        IN  /\ \A k \in first..(last + 1) : trace[k].cur = -1
            /\ \A k \in 1..Len(trace) :
                  (k > first /\ trace[k].cur # -1) => k > last + 1

C30_Witness ==
    /\ lastOp = "moveUpSelectedItems"
    /\ pre.cur >= 0
    /\ Cardinality(ListChanges) = 2
    /\ currentIndex >= 0

\* ---------------------------------------------------------------------------
\*  C31: delete can be repeated until the list is empty

\* the values returned by the deleteSelectedItem calls made so far
DeleteResults == IF lastOp = "deleteSelectedItem" THEN <<ret>> ELSE ret

\* C31: after every successful deleteSelectedItem or deleteSelectedItems some
\* item is selected if and only if the list is not empty; and when "delete"
\* is pressed again and again on a list of n items with one item selected,
\* each of the first n calls succeeds without a message box and removes one
\* item, so that the list is empty after the n-th call
C31_DeleteUntilEmpty ==
    /\ (lastOp = "deleteSelectedItem" /\ ret >= 0) =>
           (isSomethingSelected(View) <=> ~isEmpty(model))
    /\ (lastOp = "deleteSelectedItems" /\ ret # <<>>) =>
           (isSomethingSelected(View) <=> ~isEmpty(model))
    /\ (/\ lastOp \in {"deleteSelectedItem", "deleteSelectedItemRepeatedly"}
        /\ Cardinality(pre.sel) = 1) =>
           LET n == size(pre.model) IN
           /\ \A k \in 1..Len(DeleteResults) : k <= n => DeleteResults[k] >= 0
           /\ Len(DeleteResults) <= n =>
                  /\ size(model) = n - Len(DeleteResults)
                  /\ msgs = <<>>
                  /\ (~isEmpty(model) => Cardinality(selectedRows) = 1)
           /\ Len(DeleteResults) >= n => isEmpty(model)

\* "delete" was pressed three times on a list of three items whose middle
\* item was selected, and the list is empty
C31_Witness ==
    /\ lastOp = "deleteSelectedItemRepeatedly"
    /\ size(pre.model) = 3
    /\ pre.sel = {1}
    /\ Len(ret) = 3
    /\ isEmpty(model)

\* ---------------------------------------------------------------------------
\*  C32: where appendItem, prependItem and insertItem put the new item

\* the row at which the call was to put the new item
TargetRow ==
    CASE lastOp = "appendItem" -> size(pre.model)
      [] lastOp = "prependItem" -> 0
      [] lastOp = "insertItem" -> args.index
      [] OTHER -> -1

\* C32: appendItem, prependItem and insertItem put the new item at the last
\* row, at row 0 and at the given row; the items that were in the list
\* before keep their order; the new item is the only selected item and the
\* current item, whatever was selected or current before
C32_AddedItemPlacedAndChosen ==
    lastOp \in {"appendItem", "prependItem", "insertItem"} =>
        /\ size(model) = size(pre.model) + 1
        /\ validRow(View, TargetRow)
        /\ at(model, TargetRow) = args.item
        /\ WithoutRows(model, {TargetRow}) = pre.model
        /\ lastOp = "appendItem" => TargetRow = size(model) - 1
        /\ selectedRows = {TargetRow}
        /\ currentIndex = TargetRow

\* an item was put in front of a list of two items whose rows were both
\* selected and whose second row was current
C32_Witness ==
    /\ lastOp = "prependItem"
    /\ size(pre.model) = 2
    /\ pre.sel = {0, 1}
    /\ pre.cur = 1
    /\ selectedRows = {0}

\* ---------------------------------------------------------------------------
\*  C33: updateComboBoxFromDir

\* the items of the files of the scan that the predicate accepts, in scan order
RECURSIVE DesiredItems(_, _)
DesiredItems(scan, isDesiredFile) ==
    IF scan = <<>> THEN <<>>
    ELSE (IF Head(scan) \in isDesiredFile THEN <<Item(Head(scan))>> ELSE <<>>)
         \o DesiredItems(Tail(scan), isDesiredFile)

\* the display texts of the items of a list
Texts(m) == {m[k].name : k \in 1..Len(m)}

\* C33: after updateComboBoxFromDir the model holds the empty item first
\* (only when includeEmptyItem is set) and then the matching scanned files
\* in scan order; the current item is an item whose text is the text that
\* was current before the call, and no item is current when the new content
\* has no item with that text
C33_UpdateComboBoxFromDir ==
    lastOp = "updateComboBoxFromDir" =>
        LET lastText == IF pre.cur >= 0 THEN pre.model[pre.cur + 1].name ELSE <<>> IN
        /\ model = (IF args.includeEmptyItem THEN <<emptyItem>> ELSE <<>>)
                   \o DesiredItems(args.scan, args.isDesiredFile)
        /\ lastText \in Texts(model) =>
               /\ currentIndex \in Rows
               /\ model[currentIndex + 1].name = lastText
        /\ lastText \notin Texts(model) => currentIndex = -1

\* the file that was current is found at another row after the update, behind
\* the empty item and another file
C33_Witness ==
    /\ lastOp = "updateComboBoxFromDir"
    /\ pre.cur = 0
    /\ pre.model[1] = Item("a")
    /\ args.includeEmptyItem
    /\ currentIndex = 2

\* ---------------------------------------------------------------------------
\*  C34: the selected rows and the current row always exist

\* the four move operations
MoveOperations ==
    {"moveUpSelectedItem", "moveDownSelectedItem",
     "moveUpSelectedItems", "moveDownSelectedItems"}

\* C34: after any sequence of append, prepend, insert, delete, clone, move
\* and reload operations every selected row and the current row (when set)
\* are rows of the list, so nothing is selected or current on an empty list;
\* and a move that changed the list asked for a current row that exists (the
\* view would have no current item otherwise), also when no item was current
\* before the move
C34_IndexValidity ==
    /\ NoStaleIndex(View)
    /\ isEmpty(model) => (selectedRows = {} /\ currentIndex = -1)
    /\ (lastOp \in MoveOperations /\ ListChanges # {}) => currentIndex \in Rows

\* after a reload that left no current item, the selected first item was
\* moved down, and the first row became the current one
C34_Witness ==
    /\ lastOp = "moveDownSelectedItems"
    /\ pre.cur = -1
    /\ pre.sel = {0}
    /\ ListChanges # {}
    /\ currentIndex = 0
    /\ selectedRows = {1}

\* ---------------------------------------------------------------------------
\*  C35: a moved current item stays the current item

\* C35: when the current item is one of the selected items, a move up or
\* down (of one item or of several) that changes the list leaves the item
\* current that was current before the move
C35_MovedCurrentItemStaysCurrent ==
    (/\ lastOp \in MoveOperations
     /\ pre.cur \in pre.sel
     /\ ListChanges # {}) =>
        /\ currentIndex \in Rows
        /\ currentIndex # pre.cur
        /\ at(model, currentIndex) = at(pre.model, pre.cur)

\* three of four items were moved down, among them the current one, which
\* was neither the first nor the last of the three
C35_Witness ==
    /\ lastOp = "moveDownSelectedItems"
    /\ size(pre.model) = 4
    /\ pre.sel = {0, 1, 2}
    /\ pre.cur = 1
    /\ currentIndex = 2
    /\ at(model, 2) = at(pre.model, 1)

\* ---------------------------------------------------------------------------
\*  C36: the offset-corrected row of deleteSelectedItems

\* C36: in deleteSelectedItems the rows are walked through in ascending
\* order without duplicates, the unsigned difference selectedIdx - deletedCnt
\* of the k-th removal (k from 0) does not wrap around, and it is a row of the
\* list as it is after k removals, so that each removal takes one item out
C36_OffsetIdxValid ==
    (lastOp = "deleteSelectedItems" /\ ret # <<>>) =>
        \A k \in 0..(Len(ret) - 1) :
            LET selectedIdx == ret[k + 1]
                deletedCnt == k
                difference == uintMinus(toUInt(selectedIdx), toUInt(deletedCnt))
                before == trace[k + 2].model
                after == trace[k + 3].model
            IN  /\ k > 0 => ret[k] < selectedIdx
                /\ difference.hi < 32768
                /\ toInt(difference) = selectedIdx - deletedCnt
                /\ offsetIdx(selectedIdx, deletedCnt) >= 0
                /\ offsetIdx(selectedIdx, deletedCnt) < size(pre.model) - k
                /\ size(before) = size(pre.model) - k
                /\ size(after) = size(before) - 1
                /\ after = WithoutRows(before, {offsetIdx(selectedIdx, deletedCnt)})

\* the first and the last of three items were deleted, selected in the order
\* last, first: the second removal is that of row 2 - 1
C36_Witness ==
    /\ lastOp = "deleteSelectedItems"
    /\ size(pre.model) = 3
    /\ args.selectedIndexes = <<2, 0>>
    /\ ret = <<0, 2>>
    /\ size(model) = 1

\* ---------------------------------------------------------------------------
\*  C37: sandbox detection comes before every other way to refer to the executable

\* the ways to refer to the executable by its path
PathReferences(a) ==
    LET rebased == rebasePath(a.base, a.executablePath)
    IN  {a.executablePath, rebased, <<".", "/">> \o rebased}

\* the application name of a sandboxed executable: the file name below /snap/,
\* the directory below /var/lib/flatpak/app/
SandboxAppName(path) ==
    IF IsSnapExecutable(path) THEN FileName(path) ELSE <<path[10]>>

\* C37: when the executable path is detected as Snap or Flatpak, the command
\* is "snap" or "flatpak" (after the host-escape tokens of a Flatpak build)
\* and never the bare file name, no token is the path of the executable, and
\* the last token is the sandbox application name, also when the search path
\* resolves the executable; the extra permissions are not empty only for a
\* Flatpak executable, where they are the --filesystem permissions of the
\* arguments in the order of the arguments
C37_SandboxTakesPrecedence ==
    lastOp = "getRunCommand" =>
        LET tokens == <<ret.executable>> \o ret.arguments
            path == args.executablePath
            first == Len(HostEscape(args.env))
            dirs == args.dirsToBeAccessed
        IN  /\ (IsSnapExecutable(path) \/ IsFlatpakExecutable(path)) =>
                /\ Len(tokens) >= first + 3
                /\ SubSeq(tokens, 1, first) = HostEscape(args.env)
                /\ tokens[first + 1]
                     = (IF IsSnapExecutable(path) THEN <<"snap">> ELSE <<"flatpak">>)
                /\ tokens[first + 2] = <<"run">>
                /\ \A k \in 1..Len(tokens) : Unquoted(tokens[k]) \notin PathReferences(args)
                /\ \A k \in 1..(Len(tokens) - 1) : tokens[k] # FileName(path)
                /\ tokens[Len(tokens)] = SandboxAppName(path)
            /\ ret.extraPermissions # <<>> => IsFlatpakExecutable(path)
            /\ IsFlatpakExecutable(path) =>
                /\ Len(ret.extraPermissions) = Len(dirs)
                /\ Len(tokens) = first + 2 + Len(dirs) + 1
                /\ \A k \in 1..Len(dirs) :
                      /\ ret.extraPermissions[k] = <<"--filesystem=">> \o AbsoluteDir(dirs[k])
                      /\ Unquoted(tokens[first + 2 + k]) = ret.extraPermissions[k]

\* the search path resolves a Flatpak executable, and a directory with a
\* space in its name is to be accessed: the command is "flatpak run" with the
\* quoted permission, the extra permission is the permission without quotes
C37_Witness ==
    /\ lastOp = "getRunCommand"
    /\ IsFlatpakExecutable(args.executablePath)
    /\ ResolvedBySearchPath(args)
    /\ ~args.env.FLATPAK_BUILD
    /\ args.dirsToBeAccessed = << <<"/", "my mods">>, <<"/", "a">> >>
    /\ ret.executable = <<"flatpak">>
    /\ ret.extraPermissions = << <<"--filesystem=", "/", "my mods">>, <<"--filesystem=", "/", "a">> >>
    /\ ret.arguments[2] # ret.extraPermissions[1]
    /\ ret.arguments[4] = <<"org.zdoom.GZDoom">>

====
